---------------------------- MODULE Spec2Model ----------------------------
(***************************************************************************)
(* voyc/geolib: the geometry traversal engine (geoiterator.js) and the     *)
(* part of the Projection (trig.js) that the traversal reads and writes.   *)
(*                                                                         *)
(* One behaviour is one call of iterateCollection.  The JavaScript call    *)
(* tree is unfolded into an explicit stack of call frames; every action is *)
(* one hook invocation together with the engine code that surrounds it.    *)
(* JavaScript values that a hook may return are the strings "true",        *)
(* "false", "0", "undefined" and "null".                                   *)
(***************************************************************************)
EXTENDS Integers, Sequences, FiniteSets, TLC

VARIABLES
    kind,        \* the class of the iterator object
    add,         \* the rest of the add array: scalerank, mousept, time
    call,        \* a call of a library function: its name, arguments, result
    collection,  \* this.collection, the argument of iterateCollection
    status,      \* "idle" before the call, "running", "done" after return
    stack,       \* call frames of iterateCollection/Geometry/Polygon/Line
    ret,         \* this.ret
    self,        \* the fields of the Clip coordinator (this.pass, gap state)
    projection,  \* the Projection object shared with the iterator
    projection0, \* the Projection as it was when iterateCollection was called
    palette,     \* this.palette
    hooks,       \* history: the hook invocations so far, in order
    sink         \* history: the calls made on the rendering sink (this.ctx)

vars == <<kind, add, call, collection, status, stack, ret, self, projection,
          projection0, palette, hooks, sink>>

---------------------------------------------------------------------------
(* Bounds of the model *)

MaxLen == 4      \* longest ring or line of a collection of one geometry
MaxGeoms == 2    \* most geometries in a collection
MaxParts == 2    \* most children of a Multi geometry
MaxRank == 4     \* largest scalerank and palette length of calcPaletteIndex

---------------------------------------------------------------------------
(* JavaScript truthiness of a hook result *)

Truthy(v) == v = "true"

Last(s) == s[Len(s)]


---------------------------------------------------------------------------
(* Numbers.  Pixels and degrees are integers; sines and cosines are kept   *)
(* in thousandths.  NaN stands for a JavaScript number that is NaN or      *)
(* undefined; Huge stands for the finite but enormous quotient r/cos(90).  *)

NaN == -1000000
Huge == 100000

Abs(a) == IF a < 0 THEN -a ELSE a
Sgn(a) == IF a < 0 THEN -1 ELSE IF a > 0 THEN 1 ELSE 0
Min2(a, b) == IF a = NaN \/ b = NaN THEN NaN ELSE IF a < b THEN a ELSE b
Max2(a, b) == IF a = NaN \/ b = NaN THEN NaN ELSE IF a > b THEN a ELSE b
Add(a, b) == IF a = NaN \/ b = NaN THEN NaN ELSE a + b
Sub(a, b) == IF a = NaN \/ b = NaN THEN NaN ELSE a - b
Mul(a, b) == IF a = NaN \/ b = NaN THEN NaN ELSE a * b

\* division of JavaScript numbers, rounded to the nearest integer; the
\* operands are evaluated once, as the arguments of a function call are
Quotient(a, b) == Sgn(a) * Sgn(b) * ((2 * Abs(a) + Abs(b)) \div (2 * Abs(b)))
RDiv(a, b) == CHOOSE q \in {Quotient(x, y) : x \in {a}, y \in {b}} : TRUE

\* product of two numbers in thousandths
FMul(a, b) == RDiv(a * b, 1000)

\* the JavaScript remainder a % n: it has the sign of a
JsMod(a, n) == Sgn(a) * (Abs(a) % n)

Pow2(n) == IF n = 0 THEN 1 ELSE IF n = 1 THEN 2 ELSE IF n = 2 THEN 4 ELSE 8

\* an angle in degrees brought into (-180, 180]
Wrap(a) == IF a % 360 > 180 THEN (a % 360) - 360 ELSE a % 360

\* Math.sin(voyc.radians(a)) in thousandths, on the grid of angles in use
SinQ1(a) ==
    CASE a = 0 -> 0 [] a = 5 -> 87 [] a = 37 -> 602 [] a = 45 -> 707
      [] a = 53 -> 799 [] a = 85 -> 996 [] a = 90 -> 1000

SinW(w) == Sgn(w) * SinQ1(IF Abs(w) <= 90 THEN Abs(w) ELSE 180 - Abs(w))

Sin(a) == SinW(Wrap(a))

Cos(a) == SinW(Wrap(a + 90))

\* voyc.mercatorStretch(lat) in whole degrees, on the grid of latitudes
mercatorStretch(lat) ==
    Sgn(lat) * (CASE Abs(lat) = 0 -> 0 [] Abs(lat) = 5 -> 5
                  [] Abs(lat) = 37 -> 40 [] Abs(lat) = 53 -> 63
                  [] Abs(lat) = 85 -> 180)

clamp(x, lo, hi) == IF x < lo THEN lo ELSE IF x > hi THEN hi ELSE x

\* voyc.interpolate(x, lo, hi, outlo, outhi) with the outputs in hundredths
interpolate(x, lo, hi, outlo, outhi) ==
    outlo + RDiv((x - lo) * (outhi - outlo), hi - lo)

---------------------------------------------------------------------------
(* The Projection (trig.js) *)

Preset(o, c, st, v, m, sc) ==
    [orthographic |-> o, cylindrical |-> c, stitch |-> st, viewport |-> v,
     mercator |-> m, soupcan |-> sc]

\* a table in which the globe gives way to the cylinder at once, at row 2
mixerExclusive ==
    [n \in 0..8 |->
        CASE n \in {0, 1} -> Preset(TRUE, FALSE, FALSE, FALSE, FALSE, FALSE)
          [] n \in {2, 3} -> Preset(FALSE, TRUE, FALSE, TRUE, FALSE, TRUE)
          [] n \in {4, 5} -> Preset(FALSE, TRUE, FALSE, TRUE, FALSE, TRUE)
          [] n \in {6, 7, 8} -> Preset(FALSE, TRUE, TRUE, TRUE, TRUE, FALSE)]

\* voyc.mixer, the table of presets
mixer ==
    [n \in 0..8 |->
        CASE n \in {0, 1} -> Preset(TRUE, FALSE, FALSE, FALSE, FALSE, FALSE)
          [] n \in {2, 3} -> Preset(TRUE, TRUE, FALSE, TRUE, FALSE, TRUE)
          [] n \in {4, 5} -> Preset(FALSE, TRUE, FALSE, TRUE, FALSE, TRUE)
          [] n \in {6, 7, 8} -> Preset(FALSE, TRUE, TRUE, TRUE, TRUE, FALSE)]

\* the mixer of a new Projection is {}: every flag reads as undefined
NoMixer == Preset(FALSE, FALSE, FALSE, FALSE, FALSE, FALSE)

latClamp == 85           \* 85.05113 in whole degrees
PiNum == 22              \* Math.PI as the fraction 22/7
PiDen == 7
DegPerRad == 57          \* 180 / Math.PI in whole degrees

\* clipAngle(angle): the cosine of the clip angle, in thousandths
clipAngle(angle) == Cos(angle)

\* isPointVisible(lambda, phi), given the product of the two cosines
isPointVisible(p, coscos) == coscos > p.cr

\* project, cylindrical path: the Mercator stretch of the flipped latitude
MercatorLat(p, c) == c + RDiv((mercatorStretch(c) - c) * p.mf, 100)

\* project, cylindrical path: the soupcan transform of the longitude
SoupcanLng(p, lng) ==
    IF p.mixer.soupcan /\ lng # NaN THEN RDiv(DegPerRad * Sin(lng), 1000)
    ELSE lng

\* project, cylindrical path: [xc, yc]
ProjectCylindrical(p, co) ==
    <<Add(Mul(SoupcanLng(p, Sub(co[1], p.co[1])), p.pxlPerDgr), p.pt[1]),
      Add(Mul(Sub(IF p.mixer.mercator
                  THEN MercatorLat(p, clamp(0 - co[2], 0 - p.latClamp,
                                            p.latClamp))
                  ELSE 0 - co[2],
                  p.co[2]), p.pxlPerDgr), p.pt[2])>>

\* project, orthographic path: lambda constrained to pi
ConstrainLambda(lam) ==
    IF lam > 180 THEN lam - 360 ELSE IF lam < -180 THEN lam + 360 ELSE lam

\* project, orthographic path: x, y, z of the coordinate, in thousandths
UnitVector(lam, phi) ==
    <<FMul(Cos(lam), Cos(phi)), FMul(Sin(lam), Cos(phi)), Sin(phi)>>

\* project, orthographic path: the rotated point, as cos(lambda)cos(phi),
\* sin(lambda)cos(phi) and sin(phi) of the new lambda and phi
RotateK(p, v, k) ==
    <<FMul(v[1], p.cosdphi) - FMul(v[3], p.sindphi),
      FMul(v[2], p.cosdgamma) - FMul(k, p.sindgamma),
      clamp(FMul(k, p.cosdgamma) + FMul(v[2], p.sindgamma), -1000, 1000)>>

RotateVector(p, v) ==
    RotateK(p, v, FMul(v[3], p.cosdphi) + FMul(v[1], p.sindphi))

\* project, orthographic path: clip to the small circle, scale, translate
OrthographicPoint(p, r) ==
    IF isPointVisible(p, r[1])
    THEN <<RDiv(r[2] * p.k, 1000) + p.dx, p.dy - RDiv(r[3] * p.k, 1000), TRUE>>
    ELSE <<NaN, NaN, FALSE>>

ProjectOrthographic(p, co) ==
    IF p.mixer.orthographic
    THEN OrthographicPoint(p, RotateVector(p,
             UnitVector(ConstrainLambda(co[1] + p.dlambda), co[2])))
    ELSE <<NaN, NaN, TRUE>>

\* a project whose cylindrical path reports a point off the viewport, to
\* its left or right, as invisible
ProjectMixClipped(p, c, o) ==
    IF p.mixer.cylindrical
    THEN <<c[1], c[2], o[3] /\ 0 <= c[1] /\ c[1] < p.wd>>
    ELSE o

\* project: x and y of the cylindrical path when it is on, the visibility
\* of the orthographic path
ProjectMix(p, c, o) ==
    IF p.mixer.cylindrical THEN <<c[1], c[2], o[3]>> ELSE o

\* project(co): [x, y, visible]
project(p, co) ==
    ProjectMix(p, ProjectCylindrical(p, co), ProjectOrthographic(p, co))

\* voyc.mercatorShrink(lat) in whole degrees, for 0, 1, 2, ... degrees
ShrinkTable ==
    <<
      0, 1, 2, 3, 4, 5, 6, 7, 8, 9, 10, 11, 12, 13, 14, 15, 16, 17, 18, 19,
      20, 21, 21, 22, 23, 24, 25, 26, 27, 28, 29, 30, 30, 31, 32, 33, 34,
      35, 35, 36, 37, 38, 39, 39, 40, 41, 42, 42, 43, 44, 45, 45, 46, 47,
      47, 48, 49, 49, 50, 51, 51, 52, 53, 53, 54, 54, 55, 55, 56, 57, 57,
      58, 58, 59, 59, 60, 60, 61, 61, 62, 62, 63, 63, 64, 64, 64, 65, 65,
      66, 66, 67, 67, 67, 68, 68, 68, 69, 69, 70, 70, 70, 71, 71, 71, 72,
      72, 72, 72, 73, 73, 73, 74, 74, 74, 74, 75, 75, 75, 75, 76, 76, 76,
      76, 77, 77, 77, 77, 78, 78, 78, 78, 78, 79, 79, 79, 79, 79, 80, 80,
      80, 80, 80, 80, 81, 81, 81, 81, 81, 81, 82, 82, 82, 82, 82, 82, 82,
      82, 83, 83, 83, 83, 83, 83, 83, 83, 84, 84, 84, 84, 84, 84, 84, 84,
      84, 85, 85, 85, 85, 85, 85, 85, 85, 85, 85, 85, 85, 86, 86, 86, 86, 86
    >>

mercatorShrink(lat) == Sgn(lat) * ShrinkTable[Abs(lat) + 1]

\* the angles of the grid: those of the first quadrant, the quarter circle
\* from -90 to 90, and the whole circle
GridQ1 == {0, 5, 37, 45, 53, 85, 90}
GridHalf == GridQ1 \cup {0 - a : a \in GridQ1}
GridFull == GridHalf \cup {180 - a : a \in GridQ1} \cup {a - 180 : a \in GridQ1 \ {0}}

\* Math.sqrt of a number in thousandths, given the square in millionths
Isqrt(n) == CHOOSE r \in 0..3000 : r * r <= n /\ n < (r + 1) * (r + 1)

\* this.asin(x) and Math.asin(x) in degrees, x in thousandths: the angle of
\* the grid whose sine is nearest
AsinDeg(x) ==
    CHOOSE a \in GridHalf :
       \A b \in GridHalf : Abs(Sin(a) - clamp(x, -1000, 1000))
                            <= Abs(Sin(b) - clamp(x, -1000, 1000))

\* Math.atan2(y, x) in degrees: the angle of the grid whose direction is
\* nearest the direction of (x, y)
Atan2Deg(y, x) ==
    IF x = 0 /\ y = 0 THEN 0
    ELSE CHOOSE a \in GridFull :
            \A b \in GridFull : x * Cos(a) + y * Sin(a)
                                 >= x * Cos(b) + y * Sin(b)

\* isVisibleExtent(x, y)
isVisibleExtent(p, x, y) ==
    /\ x >= p.cx[1][1] /\ x <= p.cx[2][1]
    /\ y >= p.cx[1][2] /\ y <= p.cx[2][2]

\* isPointInCircle(x, y)
isPointInCircle(p, x, y) ==
    (x - p.wd \div 2) * (x - p.wd \div 2) + (y - p.ht \div 2) * (y - p.ht \div 2)
    <= p.k * p.k

\* invert, cylindrical path: the stitch wrap of the longitude
StitchWrap(lng) ==
    IF lng > 180 THEN -180 + JsMod(lng, 180)
    ELSE IF lng < -180 THEN 180 + JsMod(lng, 180)
    ELSE lng

\* invert, cylindrical path: [lng, lat, visible]
InvertCylindrical(p, pt) ==
    <<StitchWrap(RDiv(pt[1] - p.pt[1], p.pxlPerDgr) + p.co[1]),
      0 - mercatorShrink(RDiv(pt[2] - p.pt[2], p.pxlPerDgr) + p.co[2]),
      isVisibleExtent(p, pt[1], pt[2])>>

\* invert, orthographic path: lambda and phi before the rotation is undone,
\* from x and y in thousandths of the radius; sinc = sin(this.asin(rho)) is
\* rho or, for rho > 1, 1, and cosc is sqrt(1 - sinc^2)
InvertPlane(x, y, rho, sinc) ==
    <<Atan2Deg(x * sinc, rho * Isqrt(1000000 - sinc * sinc)),
      AsinDeg(IF rho = 0 THEN 0 ELSE RDiv(y * sinc, rho))>>

\* invert, orthographic path: the rotation undone, given x, y, z of the
\* point and k
InvertRotateK(p, v, k) ==
    <<Atan2Deg(FMul(v[2], p.cosdgamma) + FMul(v[3], p.sindgamma),
               FMul(v[1], p.cosdphi) + FMul(k, p.sindphi)),
      AsinDeg(FMul(k, p.cosdphi) - FMul(v[1], p.sindphi))>>

InvertRotate(p, v) ==
    InvertRotateK(p, v, FMul(v[3], p.cosdgamma) - FMul(v[2], p.sindgamma))

\* invert, orthographic path: lambda less delta lambda, constrained to pi
InvertSpin(p, r) == <<ConstrainLambda(r[1] - p.dlambda), r[2]>>

InvertSphere(p, lp) == InvertSpin(p, InvertRotate(p, UnitVector(lp[1], lp[2])))

InvertRho(p, x, y, rho) ==
    InvertSphere(p, InvertPlane(x, y, rho, Min2(rho, 1000)))

InvertXY(p, x, y) == InvertRho(p, x, y, Isqrt(x * x + y * y))

\* invert, orthographic path: [lng, lat, visible]
InvertOrthographic(p, pt) ==
    InvertXY(p, RDiv((pt[1] - p.dx) * 1000, p.k),
             RDiv((p.dy - pt[2]) * 1000, p.k))
    \o <<isPointInCircle(p, pt[1], pt[2])>>

\* invert(pt): [lng, lat, visible]; the orthographic path, when it is on,
\* overwrites what the cylindrical path computed
invert(p, pt) ==
    IF p.mixer.orthographic THEN InvertOrthographic(p, pt)
    ELSE IF p.mixer.cylindrical THEN InvertCylindrical(p, pt)
    ELSE <<NaN, NaN, TRUE>>

HalfOf(d) == IF d = NaN THEN NaN ELSE RDiv(d, 2)

\* clipExtent(), given the projected corners of the map
ClipExtentOf(p, nw, se) ==
    [p EXCEPT
       !.mx = <<<<nw[1], nw[2]>>, <<se[1], se[2]>>>>,
       !.cx = <<<<Max2(Sub(p.pt[1], HalfOf(Sub(se[1], nw[1]))), 0),
                  Max2(nw[2], 0)>>,
                <<Min2(Add(p.pt[1], HalfOf(Sub(se[1], nw[1]))), p.wd),
                  Min2(se[2], p.ht)>>>>]

\* clipExtent(): computes this.mx and the new this.cx
clipExtent(p) ==
    ClipExtentOf(p, project(p, <<-180, p.latClamp>>),
                 project(p, <<180, 0 - p.latClamp>>))

\* new voyc.Projection()
NewProjection ==
    [co |-> <<NaN, NaN>>, pt |-> <<NaN, NaN>>, zoom |-> 0,
     dlambda |-> 0, dphi |-> 0, dgamma |-> 0,
     cosdphi |-> 0, sindphi |-> 0, cosdgamma |-> 0, sindgamma |-> 0,
     dx |-> 0, dy |-> 0, wd |-> 0, ht |-> 0,
     k |-> 0, pxlPerDgr |-> 0, uscale |-> 0,
     cr |-> clipAngle(90),
     cx |-> <<<<NaN, NaN>>, <<NaN, NaN>>>>,
     mx |-> <<<<NaN, NaN>>, <<NaN, NaN>>>>,
     latClamp |-> latClamp, mix |-> -1, mixer |-> NoMixer,
     mf |-> 0, sf |-> 0]

\* the largest square in a window
Square(wd, ht) == IF wd < ht THEN wd ELSE ht

\* the radius of the globe in pixels and the pixels per degree
RadiusPixels(zoom, square) == RDiv(Pow2(zoom) * (square \div 2) * PiDen, PiNum)
PixelsPerDegree(zoom, square) == RDiv(Pow2(zoom) * square, 360)

\* translate(pt)
translate(p, pt) ==
    clipExtent([p EXCEPT
        !.pt = pt, !.dx = pt[1], !.dy = pt[2],
        !.wd = pt[1] * 2, !.ht = pt[2] * 2,
        !.k = RadiusPixels(p.zoom, Square(pt[1] * 2, pt[2] * 2)),
        !.pxlPerDgr = PixelsPerDegree(p.zoom, Square(pt[1] * 2, pt[2] * 2))])

\* the circumference of the earth in centimetres times the pixels per
\* centimetre, in thousands; the quotient of a division by zero
EarthPixels == 151464630
Infinity == 2000000000

\* voyc.scaler(width, zoom): the ratio of the earth to the map, in thousands
scaler(width, zoom) ==
    IF width = 0 THEN Infinity ELSE RDiv(EarthPixels, width * Pow2(zoom))

\* scale(zoom)
scale(p, zoom) ==
    clipExtent([p EXCEPT
        !.zoom = zoom,
        !.uscale = scaler(p.wd, zoom),
        !.k = RadiusPixels(zoom, Square(p.wd, p.ht)),
        !.pxlPerDgr = PixelsPerDegree(zoom, Square(p.wd, p.ht))])

\* a rotate that reduces the angles by three quarters of a turn
rotateThreeQuarter(p, ro) ==
    clipExtent([p EXCEPT
        !.co = <<0 - ro[1], ro[2]>>,
        !.dlambda = JsMod(ro[1], 270),
        !.dphi = JsMod(ro[2], 270),
        !.dgamma = IF Len(ro) > 2 THEN JsMod(ro[3], 270) ELSE @,
        !.cosdphi = Cos(JsMod(ro[2], 270)),
        !.sindphi = Sin(JsMod(ro[2], 270)),
        !.cosdgamma = Cos(IF Len(ro) > 2 THEN JsMod(ro[3], 270)
                          ELSE p.dgamma),
        !.sindgamma = Sin(IF Len(ro) > 2 THEN JsMod(ro[3], 270)
                          ELSE p.dgamma)])

\* rotate(ro)
rotate(p, ro) ==
    clipExtent([p EXCEPT
        !.co = <<0 - ro[1], ro[2]>>,
        !.dlambda = JsMod(ro[1], 360),
        !.dphi = JsMod(ro[2], 360),
        !.dgamma = IF Len(ro) > 2 THEN JsMod(ro[3], 360) ELSE @,
        !.cosdphi = Cos(JsMod(ro[2], 360)),
        !.sindphi = Sin(JsMod(ro[2], 360)),
        !.cosdgamma = Cos(IF Len(ro) > 2 THEN JsMod(ro[3], 360)
                          ELSE p.dgamma),
        !.sindgamma = Sin(IF Len(ro) > 2 THEN JsMod(ro[3], 360)
                          ELSE p.dgamma)])

mercatorRange == [lo |-> 61, hi |-> 80]
soupcanRange == [lo |-> 60, hi |-> 40]

\* a setMix that stores the mix and the preset and leaves the caches alone
setMixNoTranslate(p, mix) ==
    IF mix = p.mix THEN p
    ELSE [p EXCEPT !.mix = mix, !.mixer = mixer[mix \div 10],
                   !.mf = interpolate(mix, mercatorRange.lo,
                                      mercatorRange.hi, 10, 100),
                   !.sf = interpolate(mix, soupcanRange.lo,
                                      soupcanRange.hi, 10, 100)]

\* setMix(mix): what it returns
setMixReturns(p, mix) == IF mix = p.mix THEN "false" ELSE "true"

\* setMix(mix): the Projection after the call
setMix(p, mix) ==
    IF mix = p.mix THEN p
    ELSE translate([p EXCEPT !.mix = mix, !.mixer = mixer[mix \div 10],
                     !.mf = interpolate(mix, mercatorRange.lo,
                                        mercatorRange.hi, 10, 100),
                     !.sf = interpolate(mix, soupcanRange.lo,
                                        soupcanRange.hi, 10, 100)],
                   p.pt)

---------------------------------------------------------------------------
(* Plane geometry (trig.js, lines 19 to 180).  A JavaScript number is here
   an exact fraction <<n, d>> with d > 0, or <<1, 0>> (Infinity), <<-1, 0>>
   (-Infinity) or <<0, 0>> (NaN); zero has no sign, so 1/0 is Infinity.
   Rounding is not represented.  A distance is kept as its square, which
   orders distances as the distances themselves are ordered. *)

RECURSIVE GCD(_, _)
GCD(a, b) == IF b = 0 THEN a ELSE GCD(b, a % b)

\* the number n/d in lowest terms
Q(n, d) ==
    IF d = 0 THEN <<Sgn(n), 0>>
    ELSE <<Sgn(d) * (n \div GCD(Abs(n), Abs(d))),
           Abs(d) \div GCD(Abs(n), Abs(d))>>

QInt(k) == <<k, 1>>
QNaN == <<0, 0>>
QIsNaN(a) == a = QNaN
QIsFinite(a) == a[2] # 0

\* a + b, -a, a - b, a * b, 1 / a and a / b as IEEE 754 defines them
QAdd(a, b) ==
    IF QIsFinite(a) /\ QIsFinite(b) THEN Q(a[1] * b[2] + b[1] * a[2],
                                          a[2] * b[2])
    ELSE IF QIsNaN(a) \/ QIsNaN(b) THEN QNaN
    ELSE IF QIsFinite(b) THEN a
    ELSE IF QIsFinite(a) THEN b
    ELSE IF a = b THEN a ELSE QNaN

QNeg(a) == <<0 - a[1], a[2]>>
QSub(a, b) == QAdd(a, QNeg(b))
QMul(a, b) == Q(a[1] * b[1], a[2] * b[2])

QRecip(a) ==
    IF a[1] = 0 THEN (IF a[2] = 0 THEN QNaN ELSE <<1, 0>>)
    ELSE <<Sgn(a[1]) * a[2], Abs(a[1])>>

QDiv(a, b) == QMul(a, QRecip(b))

\* a < b: false when either is NaN
QLess(a, b) ==
    /\ ~QIsNaN(a) /\ ~QIsNaN(b)
    /\ IF QIsFinite(a) /\ QIsFinite(b) THEN a[1] * b[2] < b[1] * a[2]
       ELSE IF QIsFinite(a) THEN b[1] > 0
       ELSE IF QIsFinite(b) THEN a[1] < 0
       ELSE a[1] < b[1]

\* Math.min(a, b): NaN when either is NaN
QMin(a, b) ==
    IF QIsNaN(a) \/ QIsNaN(b) THEN QNaN ELSE IF QLess(b, a) THEN b ELSE a

QMax(a, b) ==
    IF QIsNaN(a) \/ QIsNaN(b) THEN QNaN ELSE IF QLess(a, b) THEN b ELSE a

\* voyc.length(A, B), squared
length(A, B) ==
    QAdd(QMul(QSub(B[2], A[2]), QSub(B[2], A[2])),
         QMul(QSub(B[1], A[1]), QSub(B[1], A[1])))

\* voyc.slope(A, B)
slope(A, B) == QDiv(QSub(B[2], A[2]), QSub(B[1], A[1]))

\* voyc.slopePerpendicular(m)
slopePerpendicular(m) == QDiv(QInt(-1), m)

\* the normal form a, b, c of the line through A and B, with its slope m
\* and intercept i
LineThrough(A, B, m, i) ==
    [a |-> QSub(A[2], B[2]), b |-> QSub(B[1], A[1]),
     c |-> QSub(QMul(A[1], B[2]), QMul(B[1], A[2])), m |-> m, i |-> i]

\* voyc.lineGivenTwoPoints(A, B)
lineGivenTwoPoints(A, B) ==
    LineThrough(A, B,
                QDiv(QNeg(QSub(A[2], B[2])), QSub(B[1], A[1])),
                QDiv(QNeg(QSub(QMul(A[1], B[2]), QMul(B[1], A[2]))),
                     QSub(B[1], A[1])))

\* voyc.lineGivenSlopeAndOnePoint(m, A): the second point is [0, i]
lineGivenSlopeAndOnePoint(m, A) ==
    LineThrough(A, <<QInt(0), QAdd(QMul(QNeg(m), A[1]), A[2])>>, m,
                QAdd(QMul(QNeg(m), A[1]), A[2]))

\* voyc.intersection: the point where the lines AB and CD cross
Crossing(AB, CD) ==
    <<QDiv(QSub(QMul(AB.b, CD.c), QMul(CD.b, AB.c)),
           QSub(QMul(AB.a, CD.b), QMul(CD.a, AB.b))),
      QDiv(QSub(QMul(CD.a, AB.c), QMul(AB.a, CD.c)),
           QSub(QMul(AB.a, CD.b), QMul(CD.a, AB.b)))>>

\* voyc.intersection(A, B, C)
intersection(A, B, C) ==
    Crossing(lineGivenTwoPoints(A, B),
             lineGivenSlopeAndOnePoint(
                slopePerpendicular(lineGivenTwoPoints(A, B).m), C))

\* voyc.distancePointToLine: d1, squared, given the line
DistanceToLine(E, line) ==
    QDiv(QMul(QAdd(QAdd(QMul(line.a, E[1]), QMul(line.b, E[2])), line.c),
              QAdd(QAdd(QMul(line.a, E[1]), QMul(line.b, E[2])), line.c)),
         QAdd(QMul(line.a, line.a), QMul(line.b, line.b)))

\* voyc.distancePointToLine(E, A, B), squared
distancePointToLine(E, A, B) == DistanceToLine(E, lineGivenTwoPoints(A, B))

\* a pointInRect that takes in the left and the right edge
pointInRectClosed(C, A, B) ==
    /\ ~QLess(C[1], A[1])
    /\ ~QLess(B[1], C[1])
    /\ QLess(C[2], A[2])
    /\ QLess(B[2], C[2])

\* voyc.pointInRect(C, A, B): A is the left top, B the right bottom corner
pointInRect(C, A, B) ==
    /\ QLess(A[1], C[1])
    /\ QLess(C[1], B[1])
    /\ QLess(C[2], A[2])
    /\ QLess(B[2], C[2])

\* a distancePointToLineSeg that takes the farther endpoint
distancePointToLineSegFar(E, A, B) ==
    IF pointInRect(intersection(A, B, E), A, B)
    THEN distancePointToLine(E, A, B)
    ELSE QMax(length(A, E), length(B, E))

\* voyc.distancePointToLineSeg(E, A, B), squared
distancePointToLineSeg(E, A, B) ==
    IF pointInRect(intersection(A, B, E), A, B)
    THEN distancePointToLine(E, A, B)
    ELSE QMin(length(A, E), length(B, E))

\* the point [x, y] of whole pixels as a pair of numbers
QPoint(pt) == <<QInt(pt[1]), QInt(pt[2])>>

---------------------------------------------------------------------------
(* The rendering sink: one record per call on this.ctx *)

SinkEv(op, x, y) == [op |-> op, x |-> x, y |-> y, x1 |-> 0, y1 |-> 0, r |-> 0]
ArcToEv(x1, y1, x2, y2, r) ==
    [op |-> "arcTo", x |-> x2, y |-> y2, x1 |-> x1, y1 |-> y1, r |-> r]
ArcEv(x, y, r) == [op |-> "arc", x |-> x, y |-> y, x1 |-> 0, y1 |-> 0, r |-> r]

---------------------------------------------------------------------------
(* GeoIteratorClip: gap tracking and the bridging arc *)

\* the JavaScript value false in a field that otherwise holds a visible point
NoPt == <<0, 0, FALSE>>

\* Math.atan(y1/x1) in degrees, for the directions of the model's grid
AtanDeg(y1, x1) ==
    CASE x1 = 0 /\ y1 = 0 -> NaN
      [] x1 = 0 /\ y1 > 0 -> 90
      [] x1 = 0 /\ y1 < 0 -> -90
      [] x1 # 0 /\ y1 = 0 -> 0
      [] x1 # 0 /\ y1 # 0 /\ Abs(x1) = Abs(y1) -> 45 * Sgn(x1) * Sgn(y1)

\* extendToCircumference: theta, with pi added in quadrants II and III
ThetaOf(x1, y1) ==
    IF AtanDeg(y1, x1) # NaN /\ x1 < 0 THEN AtanDeg(y1, x1) + 180
    ELSE AtanDeg(y1, x1)

\* extendToCircumference: the point of the circle at theta
ExtendAt(theta, ctr, r) ==
    IF theta = NaN THEN [theta |-> NaN, pt |-> <<NaN, NaN>>]
    ELSE [theta |-> theta,
          pt |-> <<RDiv(Cos(theta) * r, 1000) + ctr[1],
                   RDiv(Sin(theta) * r, 1000) + ctr[2]>>]

\* extendToCircumference(pt, ctr, r): [theta, pt]
extendToCircumference(pt, ctr, r) ==
    ExtendAt(ThetaOf(pt[1] - ctr[1], pt[2] - ctr[2]), ctr, r)

\* findTangent: the point at angle theta3 and distance r3 from the centre
TangentPoint(theta3, r3, ctr) ==
    <<ctr[1] + RDiv(r3 * Cos(theta3), 1000),
      ctr[2] + RDiv(r3 * Sin(theta3), 1000)>>

\* findTangent: r3 = r / cos(dtheta / 2)
TangentRadius(r, c) == IF c = 0 THEN Huge ELSE RDiv(r * 1000, c)

\* findTangent(ob, oc, ctr, r): the point e
findTangent(ob, oc, ctr, r) ==
    IF ob.theta = NaN \/ oc.theta = NaN THEN <<NaN, NaN>>
    ELSE TangentPoint(ob.theta + ((oc.theta - ob.theta) \div 2),
                      TangentRadius(r, Cos((oc.theta - ob.theta) \div 2)),
                      ctr)

\* arcGap: the two calls it makes on the sink
ArcGapCalls(ob, oc, e, r) ==
    <<SinkEv("lineTo", ob.pt[1], ob.pt[2]),
      ArcToEv(e[1], e[2], oc.pt[1], oc.pt[2], r)>>

ArcGapBetween(ob, oc, ctr, r) ==
    ArcGapCalls(ob, oc, findTangent(ob, oc, ctr, r), r)

\* arcGap(a, d, ctr, r)
arcGap(a, d, ctr, r) ==
    ArcGapBetween(extendToCircumference(a, ctr, r),
                  extendToCircumference(d, ctr, r), ctr, r)

\* Clip.polygonStart(polygon): the fields after the call (it returns true)
ClipPolygonStart(s) ==
    [s EXCEPT !.pointCount = 0, !.visiblePointCount = 0,
              !.firstVisiblePointInRing = NoPt,
              !.lastVisiblePointInRing = NoPt,
              !.lastVisiblePointBeforeGap = NoPt,
              !.firstVisiblePointAfterGap = NoPt,
              !.isGapAtStart = FALSE, !.isGapAtEnd = FALSE,
              !.previousPt = NoPt]

\* Clip.polygonEnd: the gap-at-end mark
ClipMarkGapAtEnd(s) ==
    IF s.previousPt = NoPt THEN [s EXCEPT !.isGapAtEnd = TRUE] ELSE s

\* Clip.polygonEnd: the closing arc and the line to the first visible point
ClipClosingArc(s, p) ==
    IF s.visiblePointCount # 0 /\ (s.isGapAtStart \/ s.isGapAtEnd)
    THEN arcGap(s.lastVisiblePointInRing, s.firstVisiblePointInRing, p.pt,
                p.k)
         \o <<SinkEv("lineTo", s.firstVisiblePointInRing[1],
                     s.firstVisiblePointInRing[2])>>
    ELSE <<>>

\* Clip.drawPoint(pt, within, ndx): does it throw a TypeError because
\* this.palette[this.paletteNdx] is undefined?
ClipDrawPointThrows(s, pal) ==
    s.paletteNdx = NaN \/ s.paletteNdx + 1 \notin DOMAIN pal

\* Clip.drawPoint(pt, within, ndx): the sink calls
ClipDrawPoint(s, pal, pt) ==
    IF ClipDrawPointThrows(s, pal) THEN <<>>
    ELSE <<SinkEv("moveTo", pt[1] + pal[s.paletteNdx + 1].ptRadius - 1,
                  pt[2] + pal[s.paletteNdx + 1].ptRadius - 1),
           ArcEv(pt[1], pt[2], pal[s.paletteNdx + 1].ptRadius)>>

\* Clip.doPoint, visible: has a gap just finished?
GapDone(s) ==
    s.firstVisiblePointInRing # NoPt /\ s.lastVisiblePointBeforeGap # NoPt

\* a doPoint that never forgets the gap it has bridged
ClipMarkVisibleKeepsGap(s, pt, within) ==
    IF s.firstVisiblePointInRing = NoPt
    THEN [s EXCEPT !.firstVisiblePointInRing = pt]
    ELSE IF s.lastVisiblePointBeforeGap # NoPt
    THEN [s EXCEPT !.firstVisiblePointAfterGap = pt,
                   !.visiblePointCount = IF within = "line" THEN 0 ELSE @]
    ELSE s

\* Clip.doPoint, visible: the first visible point or the end of a gap
ClipMarkVisible(s, pt, within) ==
    IF s.firstVisiblePointInRing = NoPt
    THEN [s EXCEPT !.firstVisiblePointInRing = pt]
    ELSE IF s.lastVisiblePointBeforeGap # NoPt
    THEN [s EXCEPT !.firstVisiblePointAfterGap = pt,
                   !.visiblePointCount = IF within = "line" THEN 0 ELSE @,
                   !.lastVisiblePointBeforeGap = NoPt]
    ELSE s

\* a doPoint that bridges the gaps of lines as it does those of polygons
ClipBridgeLines(s, p, pt, within) ==
    IF GapDone(s)
    THEN arcGap(s.lastVisiblePointBeforeGap, pt, p.pt, p.k)
    ELSE <<>>

\* Clip.doPoint, visible: the arc in the gap of a polygon
ClipBridge(s, p, pt, within) ==
    IF GapDone(s) /\ within = "poly"
    THEN arcGap(s.lastVisiblePointBeforeGap, pt, p.pt, p.k)
    ELSE <<>>

\* a doPoint that draws a line to the first point of a ring as well
ClipEmitLineOnly(s, pal, pt, within) ==
    IF within = "point" \/ s.forcePoint THEN ClipDrawPoint(s, pal, pt)
    ELSE <<SinkEv("lineTo", pt[1], pt[2])>>

\* Clip.doPoint, visible: drawPoint, lineTo or moveTo
ClipEmit(s, pal, pt, within) ==
    IF within = "point" \/ s.forcePoint THEN ClipDrawPoint(s, pal, pt)
    ELSE IF s.visiblePointCount # 0 THEN <<SinkEv("lineTo", pt[1], pt[2])>>
    ELSE <<SinkEv("moveTo", pt[1], pt[2])>>

\* Clip.doPoint, visible: the counters and the trackers
ClipCountVisible(s, pt) ==
    [s EXCEPT !.visiblePointCount = @ + 1, !.lastVisiblePointInRing = pt,
              !.previousPt = pt, !.pointCount = @ + 1]

\* a doPoint that does not notice that the ring starts in a gap
ClipInvisibleNoStart(s) ==
    [s EXCEPT !.lastVisiblePointBeforeGap =
                  IF @ = NoPt /\ s.previousPt # NoPt THEN s.previousPt ELSE @,
              !.pointCount = @ + 1]

\* Clip.doPoint, not visible
ClipInvisible(s) ==
    [s EXCEPT !.isGapAtStart = IF s.pointCount = 0 THEN TRUE ELSE @,
              !.lastVisiblePointBeforeGap =
                  IF @ = NoPt /\ s.previousPt # NoPt THEN s.previousPt ELSE @,
              !.pointCount = @ + 1]

\* Clip.doPoint, given the projected point
ClipDoPointAt(s, p, pal, pt, within) ==
    IF pt[3]
    THEN [self |-> ClipCountVisible(ClipMarkVisible(s, pt, within), pt),
          out |-> ClipBridge(s, p, pt, within)
                  \o ClipEmit(ClipMarkVisible(s, pt, within), pal, pt, within),
          threw |-> (within = "point" \/ s.forcePoint)
                    /\ ClipDrawPointThrows(s, pal),
          ret |-> "true"]
    ELSE [self |-> ClipInvisible(s), out |-> <<>>, threw |-> FALSE,
          ret |-> "true"]

\* Clip.doPoint(co, within, ndx): fields after, sink calls, result
ClipDoPoint(s, p, pal, co, within) ==
    ClipDoPointAt(s, p, pal, project(p, co), within)

\* Clip.geometryStart(geometry): the fields after the call (it returns true)
ClipGeometryStart(s) == [s EXCEPT !.pass = @ + 1]

\* Clip.draw(paletteNdx): fill and stroke as the palette entry says
ClipDraw(pal, paletteNdx) ==
    (IF pal[paletteNdx + 1].fill THEN <<SinkEv("fill", 0, 0)>> ELSE <<>>)
    \o (IF pal[paletteNdx + 1].stroke THEN <<SinkEv("stroke", 0, 0)>>
        ELSE <<>>)

---------------------------------------------------------------------------
(* The Scale coordinator: qualify, group and choose the palette by scalerank.
   A rank that is missing (undefined) and the initial prevScaleRank (false)
   are written 0: the code only tests them for truthiness and compares them,
   and every such test treats undefined, false and 0 alike. *)

\* a calcPaletteIndex without the special case of a rank of 0
calcPaletteIndexPlain(zoomScaleRank, geomScaleRank, maxScaleRank) ==
    (geomScaleRank + (maxScaleRank - zoomScaleRank)) - 1

\* Scale.calcPaletteIndex(zoomScaleRank, geomScaleRank, maxScaleRank)
calcPaletteIndex(zoomScaleRank, geomScaleRank, maxScaleRank) ==
    IF geomScaleRank # 0
    THEN (geomScaleRank + (maxScaleRank - zoomScaleRank)) - 1
    ELSE 0

\* Scale.draw(geomScaleRank): the palette index it hands to Clip.draw
ScaleDrawIndex(s, pal, rank) == calcPaletteIndex(s.scalerank, rank, Len(pal))

\* Clip.draw(paletteNdx): does it throw a TypeError because
\* this.palette[paletteNdx] is undefined?
ClipDrawThrows(pal, paletteNdx) == paletteNdx + 1 \notin DOMAIN pal

\* Scale.draw(geomScaleRank): the sink calls
ScaleDraw(s, pal, rank) ==
    IF ClipDrawThrows(pal, ScaleDrawIndex(s, pal, rank)) THEN <<>>
    ELSE ClipDraw(pal, ScaleDrawIndex(s, pal, rank))

\* Scale.collectionStart: the fields after the call
ScaleCollectionStart(s, a) ==
    [s EXCEPT !.pass = 0, !.scalerank = a.scalerank, !.prevScaleRank = 0]

\* a geometryStart that lets every geometry through
ScaleDisqualifiesNone(s, geo) == FALSE

\* Scale.geometryStart: the condition of its debugger statement, which
\* stops nothing unless a debugger is attached
ScalePaletteShort(pal) == Len(pal) <= 1

\* Scale.geometryStart: is the geometry disqualified by its scalerank?
ScaleDisqualifies(s, geo) == geo.scalerank > s.scalerank

\* Scale.geometryStart: is the path of the previous scalerank to be drawn?
ScaleFlushes(s, geo) ==
    s.prevScaleRank # 0 /\ s.prevScaleRank # geo.scalerank

\* Scale.geometryStart of a qualified geometry: the fields after the call
ScaleQualified(s, pal, geo) ==
    ClipGeometryStart(
       [s EXCEPT !.prevScaleRank = geo.scalerank,
                 !.paletteNdx = calcPaletteIndex(s.scalerank, geo.scalerank,
                                                 Len(pal))])

\* Scale.geometryStart(geometry): fields after, sink calls, result
ScaleGeometryStart(s, pal, geo) ==
    IF ScaleDisqualifies(s, geo)
    THEN [self |-> s, out |-> <<>>, threw |-> FALSE, ret |-> "0"]
    ELSE IF ScaleFlushes(s, geo)
            /\ ClipDrawThrows(pal, ScaleDrawIndex(s, pal, s.prevScaleRank))
    THEN [self |-> s, out |-> <<>>, threw |-> TRUE, ret |-> "throw"]
    ELSE [self |-> ScaleQualified(s, pal, geo),
          out |-> IF ScaleFlushes(s, geo)
                  THEN ScaleDraw(s, pal, s.prevScaleRank)
                       \o <<SinkEv("beginPath", 0, 0)>>
                  ELSE <<>>,
          threw |-> FALSE, ret |-> "true"]

---------------------------------------------------------------------------
(* GeoIteratorHitTest: the geometry nearest to a pixel *)

\* this.ptPrev is <<>> for false and <<pt>> for a point; this.d holds the
\* squares of the distances pushed; an entry of this.hits is the index g of
\* its geometry in the collection and its d (QNaN for undefined)

\* collectionStart(collection, [projection, mousept, time, scalerank])
HitCollectionStart(s, a, p) ==
    [s EXCEPT !.mousept = a.mousept, !.time = a.time,
              !.scalerank = a.scalerank,
              !.mouserect = [w |-> a.mousept[1] - 7, e |-> a.mousept[1] + 7,
                             n |-> a.mousept[2] - 7, s |-> a.mousept[2] + 7],
              !.mouseco = invert(p, a.mousept),
              !.ptPrev = <<>>, !.hits = <<>>, !.d = <<>>]

\* the three tests of geometryStart; a field that is missing is written NaN,
\* a missing name ""
HitDisqualifies(s, geo) == geo.scalerank # NaN /\ geo.scalerank > s.scalerank

HitNameless(geo) == geo.name = ""

HitOutOfTime(s, geo) ==
    /\ geo.b # NaN /\ geo.b # 0
    /\ ~(geo.b < s.time /\ s.time < geo.e)

HitGeometryStart(s, geo) ==
    IF HitDisqualifies(s, geo) \/ HitNameless(geo) \/ HitOutOfTime(s, geo)
    THEN [self |-> s, out |-> <<>>, threw |-> FALSE, ret |-> "0"]
    ELSE [self |-> [s EXCEPT !.ptPrev = <<>>], out |-> <<>>,
          threw |-> FALSE, ret |-> "true"]

\* GeoIteratorHitTest.prototype.pointInRect(pt, rect)
HitPointInRect(pt, rect) ==
    /\ pt[1] # NaN /\ pt[2] # NaN
    /\ pt[1] > rect.w /\ pt[1] < rect.e
    /\ pt[2] > rect.n /\ pt[2] < rect.s

\* one turn of the loop of pointInPolygon: does the edge from b = poly[j] to
\* a = poly[i] flip inside?  The division by b[2] - a[2], which is not 0
\* here, is multiplied out
EdgeFlips(pt, a, b) ==
    /\ (a[2] > pt[2]) # (b[2] > pt[2])
    /\ IF b[2] > a[2]
       THEN (pt[1] - a[1]) * (b[2] - a[2]) < (b[1] - a[1]) * (pt[2] - a[2])
       ELSE (pt[1] - a[1]) * (b[2] - a[2]) > (b[1] - a[1]) * (pt[2] - a[2])

\* pointInPolygon(pt, poly): an odd number of flips; every comparison with
\* NaN is false
pointInPolygon(pt, poly) ==
    /\ pt[1] # NaN /\ pt[2] # NaN
    /\ Cardinality({i \in 1..Len(poly) :
                       EdgeFlips(pt, poly[i],
                                 poly[IF i = 1 THEN Len(poly) ELSE i - 1])})
          % 2 = 1

\* polygonStart(polygon): this.ret after it; it returns false
HitPolygonStart(s, r, poly) ==
    IF pointInPolygon(s.mouseco, poly) THEN "true" ELSE r

\* voyc.distancePointToLineSeg(this.mousept, this.ptPrev, pt), squared
HitDistance(s, pt) ==
    IF pt[1] = NaN \/ pt[2] = NaN
       \/ s.ptPrev[1][1] = NaN \/ s.ptPrev[1][2] = NaN
    THEN QNaN
    ELSE distancePointToLineSeg(QPoint(s.mousept), QPoint(s.ptPrev[1]),
                                QPoint(pt))

\* d < 10
HitNear(s, pt) == s.ptPrev # <<>> /\ QLess(HitDistance(s, pt), QInt(10 * 10))

HitMatch(s, pt, within) ==
    CASE within = "point" -> HitPointInRect(pt, s.mouserect)
      [] within = "line" -> HitNear(s, pt)
      [] OTHER -> FALSE

\* doPoint(co, within, ndx) at the pixel pt: the fields after it
HitDoPointAt(s, pt, within) ==
    [s EXCEPT !.d = IF within = "line" /\ HitNear(s, pt)
                    THEN Append(@, HitDistance(s, pt)) ELSE @,
              !.ptPrev = <<pt>>]

HitDoPoint(s, p, co, within) ==
    [self |-> HitDoPointAt(s, project(p, co), within), out |-> <<>>,
     threw |-> FALSE, ret |-> "true"]

\* the sequence without its element at i
Without(d, i) == SubSeq(d, 1, i - 1) \o SubSeq(d, i + 1, Len(d))

\* this.d.sort().  sort() compares the numbers as strings; for the numbers
\* pushed, which lie in [0, 10), that is their order as numbers unless one
\* is below 1e-6 and written with an exponent, which distances between
\* whole pixels are not
RECURSIVE SortD(_)
SortD(d) ==
    IF d = <<>> THEN <<>>
    ELSE LET i == CHOOSE i \in 1..Len(d) :
                     \A j \in 1..Len(d) : ~QLess(d[j], d[i])
         IN  <<d[i]>> \o SortD(Without(d, i))

\* geometryEnd(geometry) of the geometry g with this.ret = r: the fields
\* after it
HitGeometryEnd(s, r, g) ==
    IF Truthy(r)
    THEN [s EXCEPT !.d = SortD(@),
                   !.hits = Append(@, [g |-> g,
                                       d |-> IF s.d = <<>> THEN QNaN
                                             ELSE SortD(s.d)[1]])]
    ELSE s

\* hits.sort(function(a, b){return a.d - b.d})[0]: the sort is stable and a
\* difference that is NaN counts as 0, so the first hit that no hit is
\* less than
HitBest(hits) ==
    hits[CHOOSE i \in 1..Len(hits) :
            /\ \A j \in 1..Len(hits) : ~QLess(hits[j].d, hits[i].d)
            /\ \A k \in 1..(i - 1) :
                  \E j \in 1..Len(hits) : QLess(hits[j].d, hits[k].d)]

\* the value of this.ret that is the geometry g of the collection
GeometryRef(g) == "geometries[" \o ToString(g - 1) \o "]"

\* collectionEnd: this.ret after it
HitCollectionEnd(s, r) ==
    IF s.hits # <<>> THEN GeometryRef(HitBest(s.hits).g) ELSE r

---------------------------------------------------------------------------
(* The traversal engine (GeoIterator) *)

NoCo == <<0, 0>>

\* one hook invocation: the hook, where in the collection it was made
\* (geometry g and child part, counted from 1 and 0 as the loops do), the
\* arguments of doPoint, the result, the projection's horizontal translation
\* and the pass counter at the hook, and the number n of sink calls made up
\* to the end of the hook
HookEv(hook, g, part, within, ndx, co, r, p, s, n) ==
    [hook |-> hook, g |-> g, part |-> part, within |-> within, ndx |-> ndx,
     co |-> co, ret |-> r, tx |-> p.pt[1], pass |-> s.pass, n |-> n]

Frame(fn, g, part) ==
    [fn |-> fn, pc |-> "start", i |-> -1, boo |-> "true", g |-> g,
     part |-> part]

Top == Last(stack)

\* a collection loop that walks the geometries from the last to the first
GeometryOfReversed(f) ==
    collection.geometries[Len(collection.geometries) + 1 - f.g]

\* the geometry a frame works on
GeometryOf(f) == collection.geometries[f.g]

Multi == {"MultiPolygon", "MultiLineString", "MultiPoint"}

\* an iteratePolygon that walks the last ring of the polygon
RingOfLast(f) ==
    LET geo == GeometryOf(f)
    IN  IF geo.type = "Polygon" THEN Last(geo.coordinates)
        ELSE Last(geo.coordinates[f.part + 1])

\* poly = polygon[0], the only ring iteratePolygon looks at
RingOf(f) ==
    LET geo == GeometryOf(f)
    IN  IF geo.type = "Polygon" THEN geo.coordinates[1]
        ELSE geo.coordinates[f.part + 1][1]

LineOf(f) ==
    LET geo == GeometryOf(f)
    IN  IF geo.type = "LineString" THEN geo.coordinates
        ELSE geo.coordinates[f.part + 1]

\* the coordinators that draw: Clip and Scale, which inherits from Clip
ClipKinds == {"GeoIteratorClip", "GeoIteratorScale"}

\* the result each hook of the iterator can give
Results(hook) ==
    CASE kind = "GeoIterator" ->
            IF hook = "collectionStart" THEN {"undefined"} ELSE {"true"}
      [] kind \in ClipKinds -> {"true"}
      [] kind = "GeoIteratorHitTest" ->
            IF hook = "polygonStart" THEN {"false"} ELSE {"true"}
      [] kind = "Override" ->
            CASE hook = "collectionStart" -> {"true", "undefined"}
              [] hook = "geometryStart" -> {"true", "0", "false"}
              [] OTHER -> {"true", "false"}

\* the stack after the top frame returns v to its caller
Returned(v) ==
    LET n == Len(stack)
        caller == stack[n - 1]
        takes == caller.fn = "iterateCollection"
                 \/ (caller.fn = "iterateGeometry" /\ caller.pc = "loop")
    IN  SubSeq(stack, 1, n - 2)
        \o <<IF takes THEN [caller EXCEPT !.boo = v] ELSE caller>>

\* a loop that goes on after its body has returned false
LoopGoesAlways(f, len) == f.i + 1 < len

\* the while condition of every loop: boo && ++i < len
LoopGoes(f, len) == Truthy(f.boo) /\ f.i + 1 < len

\* iterateCollection up to the loop: collectionStart
IterateCollection ==
    /\ status = "idle"
    /\ \E r \in Results("collectionStart") :
          LET s1 == CASE kind = "GeoIteratorClip" -> [self EXCEPT !.pass = 0]
                      [] kind = "GeoIteratorScale" ->
                            ScaleCollectionStart(self, add)
                      [] kind = "GeoIteratorHitTest" ->
                            HitCollectionStart(self, add, projection)
                      [] OTHER -> self
          IN  /\ self' = s1
              /\ sink' = IF kind \in ClipKinds
                         THEN sink \o <<SinkEv("clearRect", 0, 0),
                                        SinkEv("beginPath", 0, 0)>>
                         ELSE sink
              /\ hooks' = Append(hooks, HookEv("collectionStart", 0, 0, "",
                                    -1, NoCo, r, projection, s1, Len(sink')))
              /\ IF Truthy(r)
                 THEN /\ status' = "running"
                      /\ stack' = <<Frame("iterateCollection", 0, 0)>>
                 ELSE /\ status' = "done"
                      /\ stack' = <<>>
    /\ ret' = "false"
    /\ projection0' = projection
    /\ UNCHANGED <<kind, add, call, collection, projection, palette>>

\* the loop of iterateCollection: the call of iterateGeometry(geometries[i])
CollectionLoop ==
    /\ status = "running"
    /\ Top.fn = "iterateCollection"
    /\ LoopGoes(Top, Len(collection.geometries))
    /\ stack' = [stack EXCEPT ![Len(stack)].i = @ + 1]
                \o <<Frame("iterateGeometry", Top.i + 2, 0)>>
    /\ UNCHANGED <<kind, add, call, collection, status, ret, self, projection,
                   projection0, palette, hooks, sink>>

\* collectionEnd: the sink calls
CollectionEndDraws ==
    CASE kind = "GeoIteratorClip" -> ClipDraw(palette, 0)
      [] kind = "GeoIteratorScale" ->
            ScaleDraw(self, palette, self.prevScaleRank)
      [] OTHER -> <<>>

\* collectionEnd: does it throw (Scale.draw with no such palette entry)?
CollectionEndThrows ==
    /\ kind = "GeoIteratorScale"
    /\ ClipDrawThrows(palette, ScaleDrawIndex(self, palette,
                                              self.prevScaleRank))

\* the end of iterateCollection: collectionEnd and the return
CollectionEnd ==
    /\ status = "running"
    /\ Top.fn = "iterateCollection"
    /\ ~LoopGoes(Top, Len(collection.geometries))
    /\ sink' = sink \o CollectionEndDraws
    /\ hooks' = Append(hooks, HookEv("collectionEnd", 0, 0, "", -1, NoCo,
                           IF CollectionEndThrows THEN "throw"
                           ELSE "undefined", projection, self, Len(sink')))
    /\ IF CollectionEndThrows
       THEN /\ status' = "threw"
            /\ stack' = stack
       ELSE /\ status' = "done"
            /\ stack' = <<>>
    /\ ret' = IF kind = "GeoIteratorHitTest" THEN HitCollectionEnd(self, ret)
              ELSE ret
    /\ UNCHANGED <<kind, add, call, collection, self, projection, projection0,
                   palette>>

\* an iterateGeometry that takes the skip signal for the abort signal
SkippedBooConfused(geostat) ==
    CASE geostat \in {"0", "false"} -> "false"
      [] OTHER -> "null"

\* iterateGeometry: the boo it returns for a geometry it does not process
SkippedBoo(geostat) ==
    CASE geostat = "0" -> "true"
      [] geostat = "false" -> "false"
      [] OTHER -> "null"

\* geometryStart(geometry) of the iterator at hand: fields after, sink
\* calls, result (geostat is the result of a hook that computes nothing)
GeometryStart(geostat) ==
    CASE kind = "GeoIteratorScale" ->
            ScaleGeometryStart(self, palette, GeometryOf(Top))
      [] kind = "GeoIteratorClip" ->
            [self |-> ClipGeometryStart(self), out |-> <<>>,
             threw |-> FALSE, ret |-> "true"]
      [] kind = "GeoIteratorHitTest" ->
            HitGeometryStart(self, GeometryOf(Top))
      [] OTHER ->
            [self |-> self, out |-> <<>>, threw |-> FALSE, ret |-> geostat]

\* has the geometry a payload? without one, coordinates.length throws a
\* TypeError
HasCoordinates(geo) == "coordinates" \in DOMAIN geo

\* geometryStart has run with outcome res: the three signals
GeometryStartDone(res) ==
    /\ self' = res.self
    /\ sink' = sink \o res.out
    /\ hooks' = Append(hooks, HookEv("geometryStart", Top.g, 0, "", -1, NoCo,
                               res.ret, projection, res.self, Len(sink')))
    /\ IF res.threw \/ (res.ret = "true" /\ ~HasCoordinates(GeometryOf(Top)))
       THEN /\ status' = "threw"
            /\ stack' = stack
       ELSE /\ status' = status
            /\ stack' = IF res.ret = "true"
                        THEN [stack EXCEPT ![Len(stack)].pc = "loop",
                                           ![Len(stack)].boo = "true"]
                        ELSE Returned(SkippedBoo(res.ret))

\* iterateGeometry up to the switch: geometryStart and the three signals
IterateGeometry ==
    /\ status = "running"
    /\ Top.fn = "iterateGeometry" /\ Top.pc = "start"
    /\ \E geostat \in Results("geometryStart") :
          GeometryStartDone(GeometryStart(geostat))
    /\ UNCHANGED <<kind, add, call, collection, ret, projection,
                   projection0, palette>>

\* has the switch of iterateGeometry finished its case?
GeometryLoopGoes(f) ==
    LET geo == GeometryOf(f)
    IN  IF geo.type \in Multi THEN LoopGoes(f, Len(geo.coordinates))
        ELSE geo.type \in {"Polygon", "LineString", "Point"} /\ f.i = -1

\* the Polygon and Line cases of the switch: the call of iteratePolygon or
\* iterateLine for the next child (or for the geometry itself)
GeometryLoop ==
    /\ status = "running"
    /\ Top.fn = "iterateGeometry" /\ Top.pc = "loop"
    /\ GeometryOf(Top).type \in
          {"MultiPolygon", "Polygon", "MultiLineString", "LineString"}
    /\ GeometryLoopGoes(Top)
    /\ stack' = [stack EXCEPT ![Len(stack)].i = @ + 1]
                \o <<Frame(IF GeometryOf(Top).type \in
                                 {"MultiPolygon", "Polygon"}
                           THEN "iteratePolygon" ELSE "iterateLine",
                           Top.g, Top.i + 1)>>
    /\ UNCHANGED <<kind, add, call, collection, status, ret, self, projection,
                   projection0, palette, hooks, sink>>


\* doPoint has run with outcome res: the loop takes its result as boo
DoPointDone(res, co, within, ndx) ==
    /\ self' = res.self
    /\ sink' = sink \o res.out
    /\ hooks' = Append(hooks, HookEv("doPoint", Top.g, Top.part, within, ndx,
                          co, res.ret, projection, res.self, Len(sink')))
    /\ IF res.threw
       THEN /\ status' = "threw"
            /\ stack' = stack
       ELSE /\ status' = status
            /\ stack' = [stack EXCEPT ![Len(stack)].i = @ + 1,
                                      ![Len(stack)].boo = res.ret]

\* one call of doPoint(co, within, ndx) from the loop of the top frame
DoPoint(co, within, ndx) ==
    /\ \E r \in Results("doPoint") :
          DoPointDone(CASE kind \in ClipKinds ->
                             ClipDoPoint(self, projection, palette, co,
                                         within)
                        [] kind = "GeoIteratorHitTest" ->
                             HitDoPoint(self, projection, co, within)
                        [] OTHER ->
                             [self |-> self, out |-> <<>>, threw |-> FALSE,
                              ret |-> r],
                      co, within, ndx)
    /\ ret' = IF kind = "GeoIteratorHitTest"
                 /\ HitMatch(self, project(projection, co), within)
              THEN "true" ELSE ret

\* the MultiPoint and Point cases of the switch of iterateGeometry
GeometryPoint ==
    /\ status = "running"
    /\ Top.fn = "iterateGeometry" /\ Top.pc = "loop"
    /\ GeometryOf(Top).type \in {"MultiPoint", "Point"}
    /\ GeometryLoopGoes(Top)
    /\ IF GeometryOf(Top).type = "MultiPoint"
       THEN DoPoint(GeometryOf(Top).coordinates[Top.i + 2], "point",
                    Top.i + 1)
       ELSE DoPoint(GeometryOf(Top).coordinates, "point", -1)
    /\ UNCHANGED <<kind, add, call, collection, projection, projection0, palette>>

\* the width of the complete map, as geometryEnd reads it
MapWidth(p) == Sub(p.mx[2][1], p.mx[1][1])

ShiftX(p, d) == [p EXCEPT !.pt[1] = Add(@, d)]

\* a geometryEnd that also stitches from inside a re-traversal
ClipStitchesDeep(s, p) == s.pass \in {1, 2} /\ p.mixer.stitch

\* a geometryEnd that stitches at every depth
ClipStitchesAlways(s, p) == p.mixer.stitch

\* Clip.geometryEnd: does it stitch?
ClipStitches(s, p) == s.pass = 1 /\ p.mixer.stitch

\* the end of iterateGeometry: geometryEnd, which in the Clip coordinator
\* starts the stitch (the shift and the pass to the right), and the return
GeometryEnd ==
    /\ status = "running"
    /\ Top.fn = "iterateGeometry" /\ Top.pc = "loop"
    /\ ~GeometryLoopGoes(Top)
    /\ hooks' = Append(hooks, HookEv("geometryEnd", Top.g, 0, "", -1, NoCo,
                               "undefined", projection, self, Len(sink)))
    /\ IF kind \in ClipKinds
       THEN IF ClipStitches(self, projection)
            THEN /\ projection' = ShiftX(projection, MapWidth(projection))
                 /\ stack' = [stack EXCEPT ![Len(stack)].pc = "right"]
                             \o <<Frame("iterateGeometry", Top.g, 0)>>
                 /\ self' = self
            ELSE /\ self' = [self EXCEPT !.pass = @ - 1]
                 /\ stack' = Returned(Top.boo)
                 /\ projection' = projection
       ELSE /\ stack' = Returned(Top.boo)
            /\ self' = IF kind = "GeoIteratorHitTest"
                       THEN HitGeometryEnd(self, ret, Top.g) ELSE self
            /\ projection' = projection
    /\ ret' = IF kind = "GeoIteratorHitTest" /\ Truthy(ret) THEN "false"
              ELSE ret
    /\ UNCHANGED <<kind, add, call, collection, status, projection0, palette, sink>>

\* a geometryEnd that shifts back by one width only before the third pass
StitchLeftOneWidth ==
    /\ status = "running"
    /\ Top.fn = "iterateGeometry" /\ Top.pc = "right"
    /\ projection' = ShiftX(projection, 0 - MapWidth(projection))
    /\ stack' = [stack EXCEPT ![Len(stack)].pc = "left"]
                \o <<Frame("iterateGeometry", Top.g, 0)>>
    /\ UNCHANGED <<kind, add, call, collection, status, ret, self, projection0, palette,
                   hooks, sink>>

\* geometryEnd after the pass to the right: the shift and the pass to the left
StitchLeft ==
    /\ status = "running"
    /\ Top.fn = "iterateGeometry" /\ Top.pc = "right"
    /\ projection' = ShiftX(projection, 0 - 2 * MapWidth(projection))
    /\ stack' = [stack EXCEPT ![Len(stack)].pc = "left"]
                \o <<Frame("iterateGeometry", Top.g, 0)>>
    /\ UNCHANGED <<kind, add, call, collection, status, ret, self, projection0, palette,
                   hooks, sink>>

\* a geometryEnd that forgets the last shift
StitchRestoreForgotten ==
    /\ status = "running"
    /\ Top.fn = "iterateGeometry" /\ Top.pc = "left"
    /\ self' = [self EXCEPT !.pass = @ - 1]
    /\ stack' = Returned(Top.boo)
    /\ UNCHANGED <<kind, add, call, collection, status, ret, projection, projection0,
                   palette, hooks, sink>>

\* geometryEnd after the pass to the left: the shift back, pass -= 1, return
StitchRestore ==
    /\ status = "running"
    /\ Top.fn = "iterateGeometry" /\ Top.pc = "left"
    /\ projection' = ShiftX(projection, MapWidth(projection))
    /\ self' = [self EXCEPT !.pass = @ - 1]
    /\ stack' = Returned(Top.boo)
    /\ UNCHANGED <<kind, add, call, collection, status, ret, projection0, palette,
                   hooks, sink>>

\* iteratePolygon up to the loop: polygonStart
IteratePolygon ==
    /\ status = "running"
    /\ Top.fn = "iteratePolygon" /\ Top.pc = "start"
    /\ \E r \in Results("polygonStart") :
          LET s1 == IF kind \in ClipKinds THEN ClipPolygonStart(self)
                    ELSE self
          IN  /\ self' = s1
              /\ hooks' = Append(hooks, HookEv("polygonStart", Top.g, Top.part,
                                "", -1, NoCo, r, projection, s1, Len(sink)))
              /\ stack' = [stack EXCEPT
                             ![Len(stack)].pc = IF Truthy(r) THEN "loop"
                                                ELSE "end",
                             ![Len(stack)].boo = "true"]
    /\ ret' = IF kind = "GeoIteratorHitTest"
              THEN HitPolygonStart(self, ret, RingOf(Top)) ELSE ret
    /\ UNCHANGED <<kind, add, call, collection, status, projection, projection0,
                   palette, sink>>

\* the loop of iteratePolygon: doPoint(poly[i], 'poly', i)
PolygonPoint ==
    /\ status = "running"
    /\ Top.fn = "iteratePolygon" /\ Top.pc = "loop"
    /\ LoopGoes(Top, Len(RingOf(Top)))
    /\ DoPoint(RingOf(Top)[Top.i + 2], "poly", Top.i + 1)
    /\ UNCHANGED <<kind, add, call, collection, projection, projection0, palette>>

\* the end of iteratePolygon: polygonEnd and the return of boo
PolygonEnd ==
    /\ status = "running"
    /\ Top.fn = "iteratePolygon"
    /\ Top.pc = "end" \/ (Top.pc = "loop" /\ ~LoopGoes(Top, Len(RingOf(Top))))
    /\ self' = IF kind \in ClipKinds THEN ClipMarkGapAtEnd(self)
               ELSE self
    /\ sink' = IF kind \in ClipKinds
               THEN sink \o ClipClosingArc(ClipMarkGapAtEnd(self), projection)
               ELSE sink
    /\ hooks' = Append(hooks, HookEv("polygonEnd", Top.g, Top.part, "", -1,
                         NoCo, "undefined", projection, self', Len(sink')))
    /\ stack' = Returned(Top.boo)
    /\ UNCHANGED <<kind, add, call, collection, status, ret, projection, projection0,
                   palette>>

\* iterateLine up to the loop: lineStart; boo is declared inside the if and
\* stays undefined when lineStart declines
IterateLine ==
    /\ status = "running"
    /\ Top.fn = "iterateLine" /\ Top.pc = "start"
    /\ \E r \in Results("lineStart") :
          LET s1 == CASE kind \in ClipKinds -> ClipPolygonStart(self)
                      [] kind = "GeoIteratorHitTest" ->
                            [self EXCEPT !.ptPrev = <<>>]
                      [] OTHER -> self
          IN  /\ self' = s1
              /\ hooks' = Append(hooks, HookEv("lineStart", Top.g, Top.part,
                                "", -1, NoCo, r, projection, s1, Len(sink)))
              /\ stack' = [stack EXCEPT
                             ![Len(stack)].pc = IF Truthy(r) THEN "loop"
                                                ELSE "end",
                             ![Len(stack)].boo = IF Truthy(r) THEN "true"
                                                 ELSE "undefined"]
    /\ UNCHANGED <<kind, add, call, collection, status, ret, projection, projection0,
                   palette, sink>>

\* the loop of iterateLine: doPoint(line[i], 'line', i)
LinePoint ==
    /\ status = "running"
    /\ Top.fn = "iterateLine" /\ Top.pc = "loop"
    /\ LoopGoes(Top, Len(LineOf(Top)))
    /\ DoPoint(LineOf(Top)[Top.i + 2], "line", Top.i + 1)
    /\ UNCHANGED <<kind, add, call, collection, projection, projection0, palette>>

\* the end of iterateLine: lineEnd and the return of boo
LineEnd ==
    /\ status = "running"
    /\ Top.fn = "iterateLine"
    /\ Top.pc = "end" \/ (Top.pc = "loop" /\ ~LoopGoes(Top, Len(LineOf(Top))))
    /\ hooks' = Append(hooks, HookEv("lineEnd", Top.g, Top.part, "", -1,
                          NoCo, "undefined", projection, self, Len(sink)))
    /\ stack' = Returned(Top.boo)
    /\ UNCHANGED <<kind, add, call, collection, status, ret, self, projection,
                   projection0, palette, sink>>


---------------------------------------------------------------------------
(* The inputs of a call *)

\* coordinates [lng, lat]: two on the near side of the unrotated globe, one
\* on the far side
Near == <<37, 0>>
North == <<0, 37>>
Far == <<180, 0>>
Coords == {Near, North, Far}

SeqsUpTo(S, n) == UNION {[1..k -> S] : k \in 0..n}

Types == {"Point", "MultiPoint", "LineString", "MultiLineString", "Polygon",
          "MultiPolygon"}

\* the coordinates payloads of a type: lines and rings of at most n
\* coordinates over C, at most m children
Payloads(type, C, n, m) ==
    CASE type = "Point" -> C
      [] type = "MultiPoint" -> SeqsUpTo(C, m)
      [] type = "LineString" -> SeqsUpTo(C, n)
      [] type = "MultiLineString" -> SeqsUpTo(SeqsUpTo(C, n), m)
      [] type = "Polygon" -> {<<ring>> : ring \in SeqsUpTo(C, n)}
      [] type = "MultiPolygon" ->
            SeqsUpTo({<<ring>> : ring \in SeqsUpTo(C, n)}, m)

Geoms(type, C, n, m) ==
    {[type |-> type, coordinates |-> c] : c \in Payloads(type, C, n, m)}

\* the geometry of a type that has the one coordinate Near
Tiny(type) ==
    [type |-> type,
     coordinates |->
        CASE type = "Point" -> Near
          [] type \in {"MultiPoint", "LineString"} -> <<Near>>
          [] type \in {"MultiLineString", "Polygon"} -> <<<<Near>>>>
          [] type = "MultiPolygon" -> <<<<<<Near>>>>>>]

\* k copies of the geometry geo
Copies(geo, k) == [j \in 1..k |-> geo]

Collection(geoms) == [geometries |-> geoms]

\* collections of one type: a first geometry from firsts followed by up to
\* MaxGeoms - 1 small ones (uniform collections), and the empty collection
CollectionsOf(type, firsts) ==
    {Collection(<<geo>> \o Copies(Tiny(type), k)) :
        geo \in firsts, k \in 0..(MaxGeoms - 1)}
    \cup {Collection(<<>>)}

\* the collections handed to a Clip coordinator: lines and polygons, either
\* one geometry that is one long line or ring, or a first geometry of
\* several short children followed by small ones
ClipTypes == {"LineString", "MultiLineString", "Polygon", "MultiPolygon"}

ClipCollections(type) ==
    CollectionsOf(type, Geoms(type, {Near, Far}, 2, MaxParts))
    \cup (IF type \in Multi THEN {}
          ELSE {Collection(<<geo>>) : geo \in Geoms(type, Coords, MaxLen, 1)})

\* the collections handed to the other iterators: only the shape matters
ShapeCollections(type) ==
    CollectionsOf(type, Geoms(type, {Near}, IF type \in Multi THEN 2 ELSE 3,
                              MaxParts))

\* polygons that have a second ring (a hole) after the first
Hole == <<North, Far>>
RingedPolygons == {<<ring, Hole>> : ring \in {<<Near>>, <<Near, Near>>}}

RingedGeoms(type) ==
    {[type |-> type, coordinates |-> c] :
        c \in IF type = "Polygon" THEN RingedPolygons
              ELSE SeqsUpTo(RingedPolygons, MaxParts)}

RingedCollections(type) == CollectionsOf(type, RingedGeoms(type))

\* the viewport centre, the zoom, and the views (mix, rotation) of the model
Centre == <<1980, 1980>>
Zoom == 0
Views == {<<0, <<0, 0>>>>, <<0, <<180, 0>>>>, <<50, <<0, 0>>>>,
          <<80, <<0, 0>>>>}

\* the view of a preset that has the orthographic and the cylindrical flag,
\* and rings that leave and enter the visible side of the globe under it
BlendView == <<25, <<0, 0>>>>
BlendCollections ==
    {Collection(<<[type |-> "Polygon", coordinates |-> <<ring>>]>>) :
        ring \in {<<Near, Far, North>>, <<Far, Near, North>>,
                  <<Near, Far, Far, Near>>}}

\* a Projection set up by translate, scale, rotate and setMix
ViewProjection(v) ==
    setMix(rotate(scale(translate(NewProjection, Centre), Zoom), v[2]), v[1])

\* a Projection object whose fields were set by hand: cylindrical only, one
\* pixel per degree, centred on the coordinate [0, 0] at the pixel (0, 0)
PlainCylindrical ==
    [NewProjection EXCEPT
        !.mixer = Preset(FALSE, TRUE, FALSE, FALSE, FALSE, FALSE),
        !.co = <<0, 0>>, !.pt = <<0, 0>>, !.pxlPerDgr = 1]

\* the collection of one Polygon whose ring is a closed square
SquareRing == <<<<0, 0>>, <<10, 0>>, <<10, 10>>, <<0, 10>>, <<0, 0>>>>
SquareCollection ==
    Collection(<<[type |-> "Polygon", coordinates |-> <<SquareRing>>]>>)

\* the palette of a Scale coordinator: three entries that paint differently
ScalePalette ==
    <<[fill |-> TRUE, stroke |-> FALSE, ptRadius |-> 3],
      [fill |-> FALSE, stroke |-> TRUE, ptRadius |-> 2],
      [fill |-> TRUE, stroke |-> TRUE, ptRadius |-> 1]>>

\* the scaleranks of the geometries (0: none) and the scaleranks of the
\* zoom level, add[3]; the largest exceeds the length of the palette
GeomRanks == {0, 1, 3}
ZoomRanks == {1, 2, 4}

\* the geometries handed to a Scale coordinator: a line or a point, ranked
ScaleGeoms(type) ==
    {[type |-> type,
      coordinates |-> IF type = "LineString" THEN <<Near, North>> ELSE Near,
      scalerank |-> r] : r \in GeomRanks}

ScaleCollections(type) ==
    {Collection(geoms) : geoms \in SeqsUpTo(ScaleGeoms(type), MaxGeoms)}

ScaleViews == {<<0, <<0, 0>>>>, <<80, <<0, 0>>>>}

\* the geometries handed to a HitTest coordinator under PlainCylindrical,
\* where the coordinate [x, -y] is the pixel (x, y), for the mouse at the
\* pixel (10, 10): lines that pass the mouse at the distances sqrt(8) (the
\* foot between the ends), 5 (nearest at an end) and 5 (a level line, the
\* foot between the ends), and a line far away
Slanted == <<<<6, -18>>, <<18, -6>>>>
EndNear == <<<<13, -14>>, <<40, -50>>>>
Level == <<<<-10, -15>>, <<30, -15>>>>
Away == <<<<40, -40>>, <<50, -40>>, <<50, -50>>>>

\* the fields geometryStart filters on
Attrs(scalerank, name, b, e) ==
    [scalerank |-> scalerank, name |-> name, b |-> b, e |-> e]

Plain == Attrs(1, "a", NaN, NaN)

HitGeom(type, coordinates, a) ==
    [type |-> type, coordinates |-> coordinates, scalerank |-> a.scalerank,
     name |-> a.name, b |-> a.b, e |-> a.e]

HitLines ==
    {HitGeom("LineString", c, Plain) : c \in {Slanted, EndNear, Level, Away}}
    \cup {HitGeom("LineString", Slanted, a) :
             a \in {Attrs(3, "a", NaN, NaN), Attrs(1, "", NaN, NaN),
                    Attrs(1, "a", 100, 200), Attrs(1, "a", 0, 200)}}
    \cup {HitGeom("LineString", EndNear, Attrs(1, "a", 100, 900))}

HitPoints ==
    {HitGeom("Point", c, Plain) : c \in {<<12, -12>>, <<30, -30>>}}

HitPolygons ==
    {HitGeom("Polygon", <<ring>>, Plain) :
        ring \in {<<<<0, 0>>, <<30, 0>>, <<0, -30>>, <<0, 0>>>>,
                  <<<<40, 0>>, <<50, 0>>, <<40, -10>>, <<40, 0>>>>}}

HitGeoms(type) ==
    CASE type = "LineString" -> HitLines
      [] type = "Point" -> HitPoints
      [] type = "Polygon" -> HitPolygons

HitCollections(type) ==
    {Collection(geoms) : geoms \in SeqsUpTo(HitGeoms(type), MaxGeoms)}

\* the query: the mouse, the scale rank and the time
HitQueries ==
    {[scalerank |-> 2, mousept |-> <<10, 10>>, time |-> t] : t \in {150, 500}}

\* the add array without the projection and the palette
NoAdd == [scalerank |-> NaN, mousept |-> NoCo, time |-> NaN]

\* no library function has been called
NoCall == [fn |-> "", args |-> <<>>, out |-> <<>>]

Palettes == {<<[fill |-> TRUE, stroke |-> FALSE, ptRadius |-> 3]>>}

\* the fields of a new iterator: the constructor sets ret and forcePoint
NewSelf ==
    [pass |-> NaN, forcePoint |-> FALSE, paletteNdx |-> NaN,
     pointCount |-> NaN, visiblePointCount |-> NaN,
     firstVisiblePointInRing |-> NoPt, lastVisiblePointInRing |-> NoPt,
     lastVisiblePointBeforeGap |-> NoPt, firstVisiblePointAfterGap |-> NoPt,
     isGapAtStart |-> FALSE, isGapAtEnd |-> FALSE, previousPt |-> NoPt,
     scalerank |-> NaN, prevScaleRank |-> NaN,
     mousept |-> NoCo, time |-> NaN,
     mouserect |-> [w |-> NaN, e |-> NaN, n |-> NaN, s |-> NaN],
     mouseco |-> <<NaN, NaN, TRUE>>, ptPrev |-> <<>>, hits |-> <<>>,
     d |-> <<>>]

InitCommon ==
    /\ status = "idle"
    /\ stack = <<>>
    /\ ret = "false"
    /\ self = NewSelf
    /\ projection0 = projection
    /\ hooks = <<>>
    /\ sink = <<>>
    /\ call = NoCall

Init ==
    /\ \/ /\ kind = "GeoIteratorClip"
          /\ \E type \in ClipTypes : collection \in ClipCollections(type)
          /\ \E v \in Views : projection = ViewProjection(v)
          /\ palette \in Palettes
          /\ add = NoAdd
       \/ /\ kind = "GeoIteratorClip"
          /\ collection = SquareCollection
          /\ projection = PlainCylindrical
          /\ palette \in Palettes
          /\ add = NoAdd
       \/ /\ kind \in {"GeoIterator", "Override", "GeoIteratorClip"}
          /\ \E type \in {"Polygon", "MultiPolygon"} :
                collection \in RingedCollections(type)
          /\ projection = ViewProjection(<<0, <<0, 0>>>>)
          /\ palette \in Palettes
          /\ add = NoAdd
       \/ /\ kind = "GeoIteratorClip"
          /\ collection \in BlendCollections
          /\ projection = ViewProjection(BlendView)
          /\ palette \in Palettes
          /\ add = NoAdd
       \/ /\ kind = "GeoIteratorScale"
          /\ \E type \in {"LineString", "Point"} :
                collection \in ScaleCollections(type)
          /\ \E v \in ScaleViews : projection = ViewProjection(v)
          /\ palette = ScalePalette
          /\ \E r \in ZoomRanks : add = [NoAdd EXCEPT !.scalerank = r]
       \/ /\ kind = "GeoIteratorHitTest"
          /\ \E type \in {"LineString", "Point", "Polygon"} :
                collection \in HitCollections(type)
          /\ projection = PlainCylindrical
          /\ palette = ScalePalette
          /\ add \in HitQueries
       \/ /\ kind \in {"GeoIterator", "Override"}
          /\ \E type \in Types : collection \in ShapeCollections(type)
          /\ projection = NewProjection
          /\ palette \in Palettes
          /\ add = NoAdd
    /\ InitCommon

Next ==
    \/ IterateCollection
    \/ CollectionLoop
    \/ CollectionEnd
    \/ IterateGeometry
    \/ GeometryLoop
    \/ GeometryPoint
    \/ GeometryEnd
    \/ StitchLeft
    \/ StitchRestore
    \/ IteratePolygon
    \/ PolygonPoint
    \/ PolygonEnd
    \/ IterateLine
    \/ LinePoint
    \/ LineEnd

Spec == Init /\ [][Next]_vars

\* traversals to their end: the base iterator under every combination of
\* hook results, the Clip coordinator with and without stitching, and the
\* Scale coordinator, whose draw may throw
InitFair ==
    /\ \/ /\ kind = "Override"
          /\ \E type \in Types : collection \in ShapeCollections(type)
          /\ projection = NewProjection
          /\ palette \in Palettes
          /\ add = NoAdd
       \/ /\ kind = "GeoIteratorClip"
          /\ \E type \in ClipTypes :
                collection \in CollectionsOf(type, {Tiny(type)})
          /\ \E mix \in {0, 80} :
                projection = ViewProjection(<<mix, <<0, 0>>>>)
          /\ palette \in Palettes
          /\ add = NoAdd
       \/ /\ kind = "GeoIteratorScale"
          /\ collection \in ScaleCollections("LineString")
          /\ projection = ViewProjection(<<80, <<0, 0>>>>)
          /\ palette = ScalePalette
          /\ \E r \in ZoomRanks : add = [NoAdd EXCEPT !.scalerank = r]
    /\ InitCommon

\* the call tree of iterateCollection runs without suspension points: as
\* long as a step of the traversal is possible, one is taken
SpecFair == InitFair /\ [][Next]_vars /\ WF_vars(Next)

\* geometries that break the contract of the data: a type that the switch of
\* iterateGeometry does not know, and a geometry without coordinates
UnknownType(type) == [type |-> "Circle", coordinates |-> Tiny(type).coordinates]
NoPayload(type) == [type |-> type]

\* palettes that Scale.geometryStart holds to be too short
ShortPalettes == {<<>>, <<ScalePalette[1]>>}

\* a traversal of a collection whose second geometry is malformed, between
\* two small geometries of one type, under the stitching Mercator preset, or
\* a Scale traversal with a palette that is too short
InitMalformed ==
    /\ \/ /\ kind = "GeoIteratorScale"
          /\ \E type \in {"LineString", "Point"} :
                collection \in ScaleCollections(type)
          /\ projection = ViewProjection(<<0, <<0, 0>>>>)
          /\ palette \in ShortPalettes
          /\ \E r \in ZoomRanks : add = [NoAdd EXCEPT !.scalerank = r]
       \/ /\ kind = "Override"
          /\ projection = ViewProjection(<<80, <<0, 0>>>>)
          /\ palette \in Palettes
          /\ add = NoAdd
          /\ \E type \in Types :
                \/ collection = Collection(<<Tiny(type), UnknownType(type),
                                             Tiny(type)>>)
                \/ collection = Collection(<<Tiny(type), NoPayload(type),
                                             Tiny(type)>>)
       \/ /\ kind = "GeoIteratorClip"
          /\ \E type \in ClipTypes :
                \/ collection = Collection(<<Tiny(type), UnknownType(type),
                                             Tiny(type)>>)
                \/ collection = Collection(<<Tiny(type), NoPayload(type),
                                             Tiny(type)>>)
          /\ projection = ViewProjection(<<80, <<0, 0>>>>)
          /\ palette \in Palettes
          /\ add = NoAdd
    /\ InitCommon

SpecMalformed == InitMalformed /\ [][Next]_vars

---------------------------------------------------------------------------
(* Calls of the library functions.  One behaviour is one call: the initial
   state holds the function and its arguments, the action applies it and
   stores what it returns in call.out *)

\* the call of fn with args that has not been made yet
Pending(fn, args) == [fn |-> fn, args |-> args, out |-> <<>>]

IsPending(fn) == call.fn = fn /\ call.out = <<>>

\* the scaleranks and palette lengths handed to calcPaletteIndex
Ranks == (0 - MaxRank)..MaxRank

\* the parts of the state that a library call does not use
InitLibrary ==
    /\ kind = "library"
    /\ add = NoAdd
    /\ collection = Collection(<<>>)
    /\ status = "idle"
    /\ stack = <<>>
    /\ ret = "false"
    /\ self = NewSelf
    /\ palette = <<>>
    /\ hooks = <<>>
    /\ sink = <<>>
    /\ projection0 = projection

\* a caller that resizes the map: how many calls of scale and translate it
\* may still make, and the zooms and viewport centres it makes them with
MaxCalls == 3
Zooms == {0, 1, 2}
Centres == {<<1980, 1980>>, <<990, 990>>, <<990, 495>>}

\* mix values, some in every row of the mixer table
Mixes == {0, 15, 25, 39, 40, 59, 60, 61, 75, 80, 89}

\* the Projection objects setMix is called on: a new one that has a centre
\* and a zoom, and one that has a rotation and a mix as well
MixedProjections ==
    {scale(translate(NewProjection, Centre), Zoom)}
    \cup {ViewProjection(<<m, ro>>) : m \in Mixes, ro \in {<<0, 0>>, <<37, 5>>}}

\* the end points of the segments and the points measured against them
Ends == {<<x, y>> : x \in {0, 5, 10}, y \in {0, 5, 10}}
Probes == {<<x, y>> : x \in {-5, 0, 5, 10, 15}, y \in {-5, 0, 5, 10, 15}}

\* the coordinates put through project and invert, and the views: mixes in
\* the orthographic-only rows, the soupcan rows and the Mercator rows of the
\* mixer table, under three yaws
GridCoords ==
    {<<lng, lat>> : lng \in {-85, -37, 0, 5, 37, 45, 53, 85},
                    lat \in {-53, -37, -5, 0, 5, 37, 53}}

RoundTripViews ==
    {<<m, ro>> : m \in {0, 15, 40, 59, 60, 70, 80, 89},
                 ro \in {<<0, 0>>, <<90, 0>>, <<180, 0>>}}

\* rotations [yaw, pitch, roll] of the globe, some of their angles negative
Rotations ==
    {<<yaw, pitch, roll>> : yaw \in {-90, 0, 90, 180},
                            pitch \in {-37, 0, 37, 90},
                            roll \in {-90, 0, 5}}

\* pixels of the three stitched copies of the map, on the row of the centre:
\* the pixel of the centre moved by a number of degrees of longitude at the
\* 11 pixels per degree of the views
StitchedOffsets ==
    {-530, -370, -360, -190, -180, -37, 0, 37, 180, 190, 360, 370, 530}
StitchedPixels == {<<Centre[1] + 11 * d, Centre[2]>> : d \in StitchedOffsets}

InitCalc ==
    /\ \/ /\ \E z \in Ranks, g \in Ranks, m \in Ranks :
                call = Pending("calcPaletteIndex", <<z, g, m>>)
          /\ projection = NewProjection
       \/ /\ \E mix \in Mixes : call = Pending("setMix", <<mix>>)
          /\ projection \in MixedProjections
       \/ /\ \E E \in Probes, A \in Ends, B \in Ends :
                call = Pending("distancePointToLineSeg", <<E, A, B>>)
          /\ projection = NewProjection
       \/ /\ \E co \in GridCoords : call = Pending("invert", <<co>>)
          /\ \E v \in RoundTripViews : projection = ViewProjection(v)
       \/ /\ \E ro \in Rotations, co \in GridCoords :
                call = Pending("rotate", <<ro, co>>)
          /\ \E mix \in {0, 25, 50, 80} :
                projection = ViewProjection(<<mix, <<0, 0>>>>)
       \/ /\ \E pt \in StitchedPixels : call = Pending("invertAt", <<pt>>)
          /\ \E mix \in {50, 80}, yaw \in {0, 90} :
                projection = ViewProjection(<<mix, <<yaw, 0>>>>)
       \/ /\ call = Pending("resize", <<MaxCalls>>)
          /\ projection \in {NewProjection, setMix(NewProjection, 0)}
    /\ InitLibrary

\* calcPaletteIndex(zoomScaleRank, geomScaleRank, maxScaleRank)
CalcPaletteIndex ==
    /\ IsPending("calcPaletteIndex")
    /\ call' = [call EXCEPT !.out = <<calcPaletteIndex(call.args[1],
                                          call.args[2], call.args[3])>>]
    /\ UNCHANGED <<kind, add, collection, status, stack, ret, self,
                   projection, projection0, palette, hooks, sink>>

\* projection.setMix(mix)
SetMix ==
    /\ IsPending("setMix")
    /\ projection' = setMix(projection, call.args[1])
    /\ call' = [call EXCEPT !.out = <<setMixReturns(projection,
                                                   call.args[1])>>]
    /\ UNCHANGED <<kind, add, collection, status, stack, ret, self,
                   projection0, palette, hooks, sink>>

\* voyc.distancePointToLineSeg(E, A, B)
DistancePointToLineSeg ==
    /\ IsPending("distancePointToLineSeg")
    /\ call' = [call EXCEPT !.out =
                   <<distancePointToLineSeg(QPoint(call.args[1]),
                                            QPoint(call.args[2]),
                                            QPoint(call.args[3]))>>]
    /\ UNCHANGED <<kind, add, collection, status, stack, ret, self,
                   projection, projection0, palette, hooks, sink>>

\* pt = projection.project(co) and then, if pt is visible,
\* projection.invert(pt)
ProjectInvert ==
    /\ IsPending("invert")
    /\ call' = [call EXCEPT !.out =
                   IF project(projection, call.args[1])[3]
                   THEN <<project(projection, call.args[1]),
                          invert(projection,
                                 project(projection, call.args[1]))>>
                   ELSE <<project(projection, call.args[1])>>]
    /\ UNCHANGED <<kind, add, collection, status, stack, ret, self,
                   projection, projection0, palette, hooks, sink>>

\* projection.rotate(ro) and then projection.project(co)
RotateProject ==
    /\ IsPending("rotate")
    /\ projection' = rotate(projection, call.args[1])
    /\ call' = [call EXCEPT !.out =
                   <<project(rotate(projection, call.args[1]),
                             call.args[2])>>]
    /\ UNCHANGED <<kind, add, collection, status, stack, ret, self,
                   projection0, palette, hooks, sink>>

\* projection.invert(pt) of a pixel in one of the stitched copies
InvertAt ==
    /\ IsPending("invertAt")
    /\ call' = [call EXCEPT !.out = <<invert(projection, call.args[1])>>]
    /\ UNCHANGED <<kind, add, collection, status, stack, ret, self,
                   projection, projection0, palette, hooks, sink>>

\* scale(zoom), one of the calls of a caller that resizes the map
Scale ==
    /\ IsPending("resize")
    /\ call.args[1] > 0
    /\ \E zoom \in Zooms : projection' = scale(projection, zoom)
    /\ call' = [call EXCEPT !.args = <<call.args[1] - 1>>]
    /\ UNCHANGED <<kind, add, collection, status, stack, ret, self,
                   projection0, palette, hooks, sink>>

\* translate(pt), one of the calls of a caller that resizes the map
Translate ==
    /\ IsPending("resize")
    /\ call.args[1] > 0
    /\ \E pt \in Centres : projection' = translate(projection, pt)
    /\ call' = [call EXCEPT !.args = <<call.args[1] - 1>>]
    /\ UNCHANGED <<kind, add, collection, status, stack, ret, self,
                   projection0, palette, hooks, sink>>

NextCalc ==
    \/ CalcPaletteIndex
    \/ SetMix
    \/ DistancePointToLineSeg
    \/ ProjectInvert
    \/ RotateProject
    \/ InvertAt
    \/ Scale
    \/ Translate

SpecCalc == InitCalc /\ [][NextCalc]_vars

---------------------------------------------------------------------------
(* What the traversal is observed to do: the log of hook calls *)

Done == status = "done"

IsPrefix(s, t) == Len(s) <= Len(t) /\ SubSeq(t, 1, Len(s)) = s

LastHook == hooks[Len(hooks)]

IsDoPoint(e) == e.hook = "doPoint"
IsGeometryStart(e) == e.hook = "geometryStart"

\* where and with what arguments doPoint was called
PointOf(e) ==
    [g |-> e.g, part |-> e.part, within |-> e.within, ndx |-> e.ndx,
     co |-> e.co]

\* the calls of doPoint so far, in the order they were made
PointEvents ==
    LET seen == SelectSeq(hooks, IsDoPoint)
    IN  [j \in 1..Len(seen) |-> PointOf(seen[j])]

\* the calls of doPoint a line (a ring, a MultiPoint) asks for, in index order
LinePoints(g, part, within, line) ==
    [k \in 1..Len(line) |->
        [g |-> g, part |-> part, within |-> within, ndx |-> k - 1,
         co |-> line[k]]]

\* those of the children c, c + 1, ... of a Multi geometry, in array order
RECURSIVE ChildPoints(_, _, _)
ChildPoints(g, geo, c) ==
    IF c > Len(geo.coordinates) THEN <<>>
    ELSE (IF geo.type = "MultiPolygon"
          THEN LinePoints(g, c - 1, "poly", geo.coordinates[c][1])
          ELSE LinePoints(g, c - 1, "line", geo.coordinates[c]))
         \o ChildPoints(g, geo, c + 1)

\* those of one geometry
GeometryPoints(g, geo) ==
    CASE geo.type = "Point" ->
            <<[g |-> g, part |-> 0, within |-> "point", ndx |-> -1,
               co |-> geo.coordinates]>>
      [] geo.type = "MultiPoint" -> LinePoints(g, 0, "point", geo.coordinates)
      [] geo.type = "LineString" -> LinePoints(g, 0, "line", geo.coordinates)
      [] geo.type = "Polygon" -> LinePoints(g, 0, "poly", geo.coordinates[1])
      [] OTHER -> ChildPoints(g, geo, 1)

\* those of the geometries g, g + 1, ... of the collection, in declared order
RECURSIVE PointsFrom(_)
PointsFrom(g) ==
    IF g > Len(collection.geometries) THEN <<>>
    ELSE GeometryPoints(g, collection.geometries[g]) \o PointsFrom(g + 1)

\* every coordinate of the collection, once, in the declared order
EveryCoordinate == PointsFrom(1)

StartHooks == {"collectionStart", "geometryStart", "polygonStart", "lineStart"}

\* has every start hook and every doPoint so far said continue?
AllContinue ==
    \A i \in DOMAIN hooks :
       hooks[i].hook \in StartHooks \cup {"doPoint"} => hooks[i].ret = "true"

Stitching == kind \in ClipKinds /\ projection0.mixer.stitch

\* C1: once doPoint has returned false, the call of iterateCollection makes
\* no further call of doPoint (for the rest of the line or ring, for the
\* other children of the geometry, for a later geometry) and no further call
\* of geometryStart.
C1_AbortStopsTraversal ==
    \A i \in DOMAIN hooks :
       (hooks[i].hook = "doPoint" /\ hooks[i].ret = "false")
       => \A j \in (i + 1)..Len(hooks) :
             hooks[j].hook \notin {"doPoint", "geometryStart"}

\* C1: doPoint returned false at the second coordinate of a first geometry
\* that has three coordinates and a sibling after it, and the call is over
C1_Witness ==
    /\ Done
    /\ Len(collection.geometries) = 2
    /\ collection.geometries[1].type = "LineString"
    /\ Len(collection.geometries[1].coordinates) = 3
    /\ \E i \in DOMAIN hooks :
          /\ hooks[i].hook = "doPoint" /\ hooks[i].ret = "false"
          /\ hooks[i].g = 1 /\ hooks[i].ndx = 1

\* the hooks called for geometry g are its geometryStart and nothing else
NotVisited(g) ==
    \A j \in DOMAIN hooks : hooks[j].g = g => hooks[j].hook = "geometryStart"

\* the hook called after hooks[i] is the geometryStart of the next sibling
\* or, after the last geometry, collectionEnd
NextSiblingAfter(i) ==
    IF hooks[i].g < Len(collection.geometries)
    THEN /\ hooks[i + 1].hook = "geometryStart"
         /\ hooks[i + 1].g = hooks[i].g + 1
    ELSE hooks[i + 1].hook = "collectionEnd"

\* C2: when geometryStart returns 0 the geometry's coordinates are not
\* visited and the traversal goes on with the next sibling geometry; when it
\* returns false the geometry's coordinates are not visited and the
\* traversal ends: the next hook is collectionEnd.
C2_SkipIsNotAbort ==
    \A i \in DOMAIN hooks :
       (hooks[i].hook = "geometryStart" /\ hooks[i].ret \in {"0", "false"})
       => /\ NotVisited(hooks[i].g)
          /\ Done => i < Len(hooks)
          /\ i < Len(hooks)
             => IF hooks[i].ret = "0" THEN NextSiblingAfter(i)
                ELSE hooks[i + 1].hook = "collectionEnd"

\* C2: a first geometry of three coordinates was skipped, the traversal went
\* on to its sibling, where geometryStart said abort, and the call is over
C2_Witness ==
    /\ Done
    /\ Len(collection.geometries) = 2
    /\ collection.geometries[1].type = "LineString"
    /\ Len(collection.geometries[1].coordinates) = 3
    /\ \E i \in DOMAIN hooks :
          /\ hooks[i].hook = "geometryStart" /\ hooks[i].ret = "0"
          /\ hooks[i].g = 1
          /\ hooks[i + 1].hook = "geometryStart" /\ hooks[i + 1].ret = "false"

\* C3: while every hook says continue and there is no stitching, the calls of
\* doPoint made so far are the first coordinates of the collection in the
\* declared order (geometries, then children, then indices), each once, and
\* when the call is over they are all of them.
C3_DeclaredOrder ==
    (AllContinue /\ ~Stitching)
    => /\ IsPrefix(PointEvents, EveryCoordinate)
       /\ Done => PointEvents = EveryCoordinate

\* C3: a traversal that is over, in which every hook said continue, of two
\* geometries the first of which has two children with coordinates
C3_Witness ==
    /\ Done /\ AllContinue /\ ~Stitching
    /\ kind = "Override"
    /\ Len(collection.geometries) = 2
    /\ collection.geometries[1].type \in Multi
    /\ \E i \in DOMAIN hooks :
          hooks[i].hook = "doPoint" /\ hooks[i].g = 1 /\ hooks[i].part = 1
    /\ \E i \in DOMAIN hooks : hooks[i].hook = "doPoint" /\ hooks[i].g = 2

\* C4: with the hooks of the base class, a call of iterateCollection that
\* is over has called doPoint once for each coordinate of the collection.
C4_DefaultHooksVisitAll ==
    (kind = "GeoIterator" /\ Done) => PointEvents = EveryCoordinate

---------------------------------------------------------------------------
(* The passes of the Clip coordinator *)

Clip == kind = "GeoIteratorClip"

\* the width of the complete map: 360 degrees of longitude
FullMapWidth == 360 * projection0.pxlPerDgr

\* the shifts of the passes a geometry is given, in order
PassShifts ==
    IF projection0.mixer.stitch THEN <<0, FullMapWidth, 0 - FullMapWidth>>
    ELSE <<0>>

\* one pass over geometry g with the horizontal translation tx: its
\* geometryStart and then one doPoint for each coordinate of the geometry
PassOver(g, tx) ==
    [k \in 1..(1 + Len(GeometryPoints(g, collection.geometries[g]))) |->
        [hook |-> IF k = 1 THEN "geometryStart" ELSE "doPoint", g |-> g,
         tx |-> tx]]

\* the passes over the geometries g, g + 1, ...: those numbered n and up of g
\* and all those of the later ones
RECURSIVE PassesFrom(_, _)
PassesFrom(g, n) ==
    IF g > Len(collection.geometries) THEN <<>>
    ELSE IF n > Len(PassShifts) THEN PassesFrom(g + 1, 1)
    ELSE PassOver(g, projection0.pt[1] + PassShifts[n])
         \o PassesFrom(g, n + 1)

IsPassHook(e) == e.hook \in {"geometryStart", "doPoint"}

\* the geometryStart and doPoint calls so far, each with its geometry and
\* the horizontal translation it was made under
PassEvents ==
    LET seen == SelectSeq(hooks, IsPassHook)
    IN  [j \in 1..Len(seen) |->
            [hook |-> seen[j].hook, g |-> seen[j].g, tx |-> seen[j].tx]]

\* C5: the Clip coordinator goes over each geometry in declared order, three
\* times in succession when the preset stitches (with the horizontal
\* translation T, then T + W, then T - W, W the width of the complete map)
\* and once when it does not, each pass visiting all of the geometry's
\* coordinates before the next pass or the next geometry starts.
C5_ThreePasses ==
    Clip => LET seen == PassEvents
                due == PassesFrom(1, 1)
            IN  /\ IsPrefix(seen, due)
                /\ Done => seen = due

\* C5: a stitched traversal of two geometries is over, and the first
\* geometry, of three coordinates or more, was started three times
C5_Witness ==
    /\ Clip /\ Done /\ projection0.mixer.stitch
    /\ Len(collection.geometries) = 2
    /\ Len(GeometryPoints(1, collection.geometries[1])) >= 3
    /\ Cardinality({i \in DOMAIN hooks :
                       hooks[i].hook = "geometryStart" /\ hooks[i].g = 1}) = 3

PassDepth ==
    Cardinality({k \in DOMAIN stack :
                    stack[k].fn = "iterateGeometry" /\ stack[k].pc # "start"})

\* C7: from collectionStart on, the pass counter of a Clip coordinator is 0
\* between the top-level geometries and after the last, 1 in the first pass
\* of a geometry and 2 in a re-traversal, never more than 2 nor less than 0,
\* and only the geometryEnd of a top-level call of iterateGeometry (depth 1)
\* starts the stitch passes.
C7_PassDepth ==
    (Clip /\ status # "idle")
    => /\ self.pass \in 0..2
       /\ status = "running" => self.pass = PassDepth
       /\ (Done \/ Top.fn = "iterateCollection") => self.pass = 0
       /\ \A k \in DOMAIN stack : stack[k].pc \in {"right", "left"} => k = 2
       /\ \A i \in DOMAIN hooks :
             hooks[i].hook = "doPoint"
             => hooks[i].pass = IF hooks[i].tx = projection0.pt[1] THEN 1
                                ELSE 2

\* C7: the geometryEnd of a re-traversal has just run, at depth 2, and the
\* coordinator is back in the geometryEnd of the first pass
C7_Witness ==
    /\ Clip /\ status = "running" /\ self.pass = 1
    /\ Top.pc = "left"
    /\ LastHook.hook = "geometryEnd" /\ LastHook.pass = 2

---------------------------------------------------------------------------
(* What the Clip coordinator draws, hook by hook *)

\* the calls the last hook made on the sink
Emitted ==
    SubSeq(sink,
           (IF Len(hooks) > 1 THEN hooks[Len(hooks) - 1].n ELSE 0) + 1,
           Len(sink))

\* the ring or the line that the hook call e belongs to
RingAt(e) ==
    CASE collection.geometries[e.g].type = "Polygon" ->
            collection.geometries[e.g].coordinates[1]
      [] collection.geometries[e.g].type = "MultiPolygon" ->
            collection.geometries[e.g].coordinates[e.part + 1][1]
      [] collection.geometries[e.g].type = "LineString" ->
            collection.geometries[e.g].coordinates
      [] collection.geometries[e.g].type = "MultiLineString" ->
            collection.geometries[e.g].coordinates[e.part + 1]

\* the k-th coordinate of a ring on the screen, and whether it is visible
Pixel(ring, k) == project(projection, ring[k])
Visible(ring, k) == Pixel(ring, k)[3]

VisibleIn(ring) == {k \in DOMAIN ring : Visible(ring, k)}

\* the largest and the smallest of a non-empty set of indices
Largest(S) == CHOOSE k \in S : \A j \in S : j <= k
Smallest(S) == CHOOSE k \in S : \A j \in S : k <= j

\* the last visible coordinate before the k-th
VisibleBefore(ring, k) == Largest({j \in VisibleIn(ring) : j < k})

LineToEv(pt) == SinkEv("lineTo", pt[1], pt[2])
MoveToEv(pt) == SinkEv("moveTo", pt[1], pt[2])

\* the point pt pushed out to the horizon circle of the globe
Extended(pt) == extendToCircumference(pt, projection.pt, projection.k).pt

\* is calls one arc-bridging sequence from a to d followed by a line to d:
\* a lineTo the extended a, an arcTo that ends at the extended d, a lineTo d?
IsBridgeTo(calls, a, d) ==
    /\ Len(calls) = 3
    /\ calls[1] = LineToEv(Extended(a))
    /\ calls[2].op = "arcTo"
    /\ <<calls[2].x, calls[2].y>> = Extended(d)
    /\ calls[3] = LineToEv(d)

\* what doPoint is to draw for the k-th coordinate of a polygon ring
RingPointDrawn(ring, k) ==
    IF ~Visible(ring, k) THEN Emitted = <<>>
    ELSE IF {j \in VisibleIn(ring) : j < k} = {}
    THEN Emitted = <<MoveToEv(Pixel(ring, k))>>
    ELSE IF ~Visible(ring, k - 1)
    THEN IsBridgeTo(Emitted, Pixel(ring, VisibleBefore(ring, k)),
                    Pixel(ring, k))
    ELSE Emitted = <<LineToEv(Pixel(ring, k))>>

\* C8: in a polygon ring the Clip coordinator draws nothing for an invisible
\* coordinate, a moveTo for the first visible one, for the first visible
\* coordinate after a run of invisible ones between two visible ones exactly
\* one arc-bridging sequence (a lineTo the extended last visible point
\* before the gap, then one arcTo) immediately before its lineTo, and a
\* plain lineTo for every other visible coordinate; a ring whose first and
\* last coordinates are visible gets no closing arc at its end.
C8_InteriorGapOneArc ==
    (Clip /\ hooks # <<>>)
    => /\ (LastHook.hook = "doPoint" /\ LastHook.within = "poly")
          => RingPointDrawn(RingAt(LastHook), LastHook.ndx + 1)
       /\ (/\ LastHook.hook = "polygonEnd"
           /\ RingAt(LastHook) # <<>>
           /\ Visible(RingAt(LastHook), 1)
           /\ Visible(RingAt(LastHook), Len(RingAt(LastHook))))
          => Emitted = <<>>

ArcTos == {i \in DOMAIN sink : sink[i].op = "arcTo"}

\* C8: the ring visible, invisible, visible, visible has been drawn on the
\* unrotated globe: one arcTo, then the lineTo of the coordinate after the
\* gap, then a plain lineTo, then the fill
C8_Witness ==
    /\ Clip /\ Done /\ projection.mix = 0 /\ projection.dlambda = 0
    /\ collection.geometries =
          <<[type |-> "Polygon",
             coordinates |-> <<<<Near, Far, North, Near>>>>]>>
    /\ Cardinality(ArcTos) = 1
    /\ \E i \in ArcTos :
          /\ sink[i - 1].op = "lineTo"
          /\ sink[i + 1] = LineToEv(project(projection, North))
          /\ sink[i + 2] = LineToEv(project(projection, Near))
          /\ sink[i + 3].op = "fill"

\* is every geometry of the collection a LineString or a MultiLineString?
LinesOnly ==
    \A g \in DOMAIN collection.geometries :
       collection.geometries[g].type \in {"LineString", "MultiLineString"}

\* what doPoint is to draw for the k-th coordinate of a line
LinePointDrawn(line, k) ==
    IF ~Visible(line, k) THEN Emitted = <<>>
    ELSE IF k = 1 \/ ~Visible(line, k - 1)
    THEN Emitted = <<MoveToEv(Pixel(line, k))>>
    ELSE Emitted = <<LineToEv(Pixel(line, k))>>

\* C9: the Clip coordinator never calls arcTo for a collection of lines; in
\* a line it draws nothing for an invisible coordinate, a moveTo for the
\* first coordinate if visible and for the first visible coordinate after
\* each run of invisible ones, a lineTo for a visible coordinate that
\* follows a visible one, and nothing at the end of the line.
C9_LinesBreakNoArc ==
    (Clip /\ hooks # <<>>)
    => /\ (LastHook.hook = "doPoint" /\ LastHook.within = "line")
          => LinePointDrawn(RingAt(LastHook), LastHook.ndx + 1)
       /\ LastHook.hook = "lineEnd" => Emitted = <<>>
       /\ LinesOnly => ArcTos = {}

\* C9: the line visible, invisible, visible has been drawn on the unrotated
\* globe as two moveTo calls and the fill
C9_Witness ==
    /\ Clip /\ Done /\ projection.mix = 0 /\ projection.dlambda = 0
    /\ collection.geometries =
          <<[type |-> "LineString", coordinates |-> <<Near, Far, North>>]>>
    /\ SubSeq(sink, 3, Len(sink)) =
          <<MoveToEv(project(projection, Near)),
            MoveToEv(project(projection, North)), SinkEv("fill", 0, 0)>>

\* what polygonEnd is to draw for a ring
RingEndDrawn(ring) ==
    IF ring # <<>> /\ ~Visible(ring, 1) /\ VisibleIn(ring) # {}
    THEN IsBridgeTo(Emitted, Pixel(ring, Largest(VisibleIn(ring))),
                    Pixel(ring, Smallest(VisibleIn(ring))))
    ELSE IF VisibleIn(ring) = {}
            \/ (Visible(ring, 1) /\ Visible(ring, Len(ring)))
    THEN Emitted = <<>>
    ELSE TRUE

\* C10: at the end of a polygon ring whose first coordinate is invisible and
\* which has a visible coordinate, the Clip coordinator draws exactly one
\* more arc-bridging sequence, from the last visible point of the ring to
\* the first, and then a lineTo that first visible point; at the end of a
\* ring whose first and last coordinates are visible, or which has no
\* visible coordinate, it draws nothing.
C10_ClosingArc ==
    (Clip /\ hooks # <<>> /\ LastHook.hook = "polygonEnd")
    => RingEndDrawn(RingAt(LastHook))

\* C10: the ring invisible, visible, visible has been drawn on the unrotated
\* globe: the closing arc is the only arcTo, and the line to the first
\* visible point is the last call before the fill
C10_Witness ==
    /\ Clip /\ Done /\ projection.mix = 0 /\ projection.dlambda = 0
    /\ collection.geometries =
          <<[type |-> "Polygon", coordinates |-> <<<<Far, Near, North>>>>]>>
    /\ Cardinality(ArcTos) = 1
    /\ sink[Len(sink) - 1] = LineToEv(project(projection, Near))
    /\ sink[Len(sink) - 2].op = "arcTo"
    /\ sink[Len(sink) - 3].op = "lineTo"
    /\ sink[Len(sink) - 4] = LineToEv(project(projection, North))

---------------------------------------------------------------------------
(* A fully visible closed ring, end to end *)

\* is every coordinate of the ring visible?
FullyVisible(ring) == VisibleIn(ring) = DOMAIN ring

\* has the square been put to the Clip coordinator under the plain
\* cylindrical projection?
SquareCase ==
    /\ Clip
    /\ collection = SquareCollection
    /\ projection0 = PlainCylindrical

ClosePaths == {i \in DOMAIN sink : sink[i].op = "closePath"}

\* C11 as the specification words it: the square is drawn as moveTo(0,0),
\* lineTo(10,0), lineTo(10,10), lineTo(0,10), closePath, fill, in that order
\* (after the clearRect and the beginPath of collectionStart).
C11_SquareClosedByClosePath ==
    (SquareCase /\ Done)
    => SubSeq(sink, 3, Len(sink)) =
          <<SinkEv("moveTo", 0, 0), SinkEv("lineTo", 10, 0),
            SinkEv("lineTo", 10, 10), SinkEv("lineTo", 0, 10),
            SinkEv("closePath", 0, 0), SinkEv("fill", 0, 0)>>

\* C11: the Clip coordinator never calls closePath.  For a polygon ring
\* whose coordinates are all visible it calls moveTo for the first
\* coordinate and lineTo for every further coordinate, the duplicated closing
\* one included, and nothing at the end of the ring.  The square
\* [[0,0],[10,0],[10,10],[0,10],[0,0]] under a cylindrical projection of one
\* pixel per degree centred at (0,0) is drawn, latitude flipped, as
\* clearRect, beginPath, moveTo(0,0), lineTo(10,0), lineTo(10,-10),
\* lineTo(0,-10), lineTo(0,0), fill.
C11_SquareClosedByLine ==
    /\ ClosePaths = {}
    /\ (Clip /\ hooks # <<>>)
       => /\ (/\ LastHook.hook = "doPoint" /\ LastHook.within = "poly"
              /\ FullyVisible(RingAt(LastHook)))
             => Emitted =
                   <<IF LastHook.ndx = 0
                     THEN MoveToEv(Pixel(RingAt(LastHook), 1))
                     ELSE LineToEv(Pixel(RingAt(LastHook),
                                         LastHook.ndx + 1))>>
          /\ (LastHook.hook = "polygonEnd" /\ FullyVisible(RingAt(LastHook)))
             => Emitted = <<>>
    /\ (SquareCase /\ Done)
       => sink = <<SinkEv("clearRect", 0, 0), SinkEv("beginPath", 0, 0),
                   SinkEv("moveTo", 0, 0), SinkEv("lineTo", 10, 0),
                   SinkEv("lineTo", 10, -10), SinkEv("lineTo", 0, -10),
                   SinkEv("lineTo", 0, 0), SinkEv("fill", 0, 0)>>

\* C11: the square has been drawn to the end: eight calls on the sink, the
\* last line back to (0,0), then the fill
C11_Witness ==
    /\ SquareCase /\ Done
    /\ Len(sink) = 8
    /\ sink[7] = SinkEv("lineTo", 0, 0)
    /\ sink[8].op = "fill"

---------------------------------------------------------------------------
(* Geometries that draw nothing: disqualified or wholly invisible *)

\* is geometry g disqualified by the Scale coordinator?
Disqualified(g) ==
    /\ kind = "GeoIteratorScale"
    /\ collection.geometries[g].scalerank > add.scalerank

\* has geometry g a coordinate, and is none of its coordinates visible?
AllInvisibleIn(pts) ==
    /\ pts # <<>>
    /\ \A k \in DOMAIN pts : ~project(projection0, pts[k].co)[3]

AllInvisible(g) == AllInvisibleIn(GeometryPoints(g, collection.geometries[g]))

Quiet(g) == Disqualified(g) \/ AllInvisible(g)

PathOps == {"moveTo", "lineTo", "arcTo", "arc"}

\* is the hook call e the last one made for a quiet geometry?
EndsQuiet(e) ==
    /\ e.g >= 1
    /\ \/ e.hook = "geometryStart" /\ e.ret = "0" /\ Disqualified(e.g)
       \/ e.hook = "geometryEnd" /\ AllInvisible(e.g)

GeometryStartsOf(g) ==
    {i \in DOMAIN hooks : hooks[i].hook = "geometryStart" /\ hooks[i].g = g}

\* C12: in a Clip or Scale traversal, no hook called for a geometry that
\* the Scale coordinator disqualifies (scalerank above the zoom rank) or
\* that has coordinates none of which is visible calls moveTo, lineTo, arcTo
\* or arc, and none throws; geometryStart is called once for it (it is not
\* traversed again for stitching, and the projection is not shifted); after
\* its last hook the pass counter is 0 as before it; and the next hook is
\* the geometryStart of the following geometry or, after the last geometry,
\* collectionEnd.
C12_QuietGeometry ==
    (kind \in ClipKinds /\ hooks # <<>>)
    => /\ (LastHook.g >= 1 /\ Quiet(LastHook.g))
          => /\ \A k \in DOMAIN Emitted : Emitted[k].op \notin PathOps
             /\ status # "threw"
             /\ Cardinality(GeometryStartsOf(LastHook.g)) = 1
             /\ LastHook.tx = projection0.pt[1]
             /\ Disqualified(LastHook.g)
                => LastHook.hook = "geometryStart" /\ LastHook.ret = "0"
       /\ EndsQuiet(LastHook) => self.pass = 0 /\ projection = projection0
       /\ (Len(hooks) > 1 /\ EndsQuiet(hooks[Len(hooks) - 1]))
          => NextSiblingAfter(Len(hooks) - 1)

\* C12: under a stitch preset the Scale coordinator disqualified the first
\* of two geometries and then drew the second one three times
C12_Witness ==
    /\ kind = "GeoIteratorScale" /\ Done /\ projection0.mixer.stitch
    /\ Len(collection.geometries) = 2
    /\ Disqualified(1) /\ ~Disqualified(2)
    /\ Cardinality(GeometryStartsOf(1)) = 1
    /\ Cardinality(GeometryStartsOf(2)) = 3
    /\ \E k \in DOMAIN sink : sink[k].op = "lineTo"

---------------------------------------------------------------------------
(* Polygons with more than one ring *)

PolyPoints == {i \in DOMAIN hooks : hooks[i].hook = "doPoint"
                                    /\ hooks[i].within = "poly"}

\* C13: every call of doPoint for a Polygon or an element of a MultiPolygon
\* passes the coordinate of the first ring at the index of the call, the
\* indices of one polygon run from 0 upwards within the first ring, no hook
\* throws, and the calls of doPoint of the whole traversal are those that
\* the first rings alone determine: while every hook says continue (and
\* nothing is stitched) they are the coordinates of the first rings in the
\* declared order, all of them when the call is over.
C13_FirstRingOnly ==
    /\ \A i \in PolyPoints :
          /\ hooks[i].ndx + 1 \in DOMAIN RingAt(hooks[i])
          /\ hooks[i].co = RingAt(hooks[i])[hooks[i].ndx + 1]
    /\ (hooks # <<>> /\ LastHook.within = "poly") => status # "threw"
    /\ (AllContinue /\ ~Stitching /\ PolyPoints # {})
       => /\ IsPrefix(PointEvents, EveryCoordinate)
          /\ Done => PointEvents = EveryCoordinate

\* C13: a traversal that is over, in which every hook said continue, of a
\* Polygon with a second ring followed by another geometry: the first ring
\* was visited, the coordinates of the second ring were not, and the
\* geometry after it was visited
C13_Witness ==
    /\ Done /\ AllContinue
    /\ Len(collection.geometries) = 2
    /\ collection.geometries[1].type = "Polygon"
    /\ collection.geometries[1].coordinates = <<<<Near, Near>>, Hole>>
    /\ \E i \in PolyPoints : hooks[i].g = 1 /\ hooks[i].ndx = 1
    /\ \E i \in PolyPoints : hooks[i].g = 2
    /\ \A i \in PolyPoints : hooks[i].co = Near

---------------------------------------------------------------------------
(* calcPaletteIndex *)

Returned16 == call.fn = "calcPaletteIndex" /\ call.out # <<>>

\* C16 as the specification words it: calcPaletteIndex(zoomRank,
\* geometryScaleRank, maxRank) returns
\* (geometryScaleRank + (maxRank - zoomRank)) - 1 for all integer inputs.
C16_PaletteIndexFormula ==
    Returned16
    => call.out[1] = (call.args[2] + (call.args[3] - call.args[1])) - 1

\* C16: calcPaletteIndex(zoomRank, geometryScaleRank, maxRank) returns
\* (geometryScaleRank + (maxRank - zoomRank)) - 1 for every integer
\* geometryScaleRank other than 0, and 0 when geometryScaleRank is 0.
C16_PaletteIndex ==
    Returned16
    => call.out[1] = IF call.args[2] = 0 THEN 0
                     ELSE (call.args[2] + (call.args[3] - call.args[1])) - 1

\* C16: calcPaletteIndex(3, 0, 3) has returned 0, where the formula gives -1
C16_Witness ==
    /\ Returned16
    /\ call.args = <<3, 0, 3>>
    /\ call.out = <<0>>

---------------------------------------------------------------------------
(* setMix *)

Returned17 == call.fn = "setMix" /\ call.out # <<>>

\* the fields of a Projection that neither setMix nor translate writes
Untouched(p) ==
    <<p.co, p.zoom, p.dlambda, p.dphi, p.dgamma, p.cosdphi, p.sindphi,
      p.cosdgamma, p.sindgamma, p.cr, p.latClamp>>

\* C17: setMix(v) with v equal to the current mix returns false and leaves
\* the Projection as it was; with another v it returns true, the mix is v,
\* the preset is the entry floor(v/10) of the mixer table, the centre is
\* unchanged, the fields that translate computes (viewport size, radius,
\* pixels per degree, map extent, clip extent) are those that translate
\* with the unchanged centre gives under the new preset, and the rotation,
\* the zoom and the clip angle are unchanged.
C17_SetMix ==
    Returned17
    => IF call.args[1] = projection0.mix
       THEN call.out = <<"false">> /\ projection = projection0
       ELSE /\ call.out = <<"true">>
            /\ projection.mix = call.args[1]
            /\ projection.mixer = mixer[call.args[1] \div 10]
            /\ projection.pt = projection0.pt
            /\ projection = translate(projection, projection0.pt)
            /\ Untouched(projection) = Untouched(projection0)

\* C17: setMix(80) on a Projection whose mix was 0 has returned true, and
\* the map extent is no longer the one of the globe
C17_Witness ==
    /\ Returned17
    /\ call.args = <<80>> /\ call.out = <<"true">>
    /\ projection0.mix = 0
    /\ projection.mixer.stitch
    /\ projection.mx # projection0.mx

---------------------------------------------------------------------------
(* distancePointToLineSeg *)

Returned18 == call.fn = "distancePointToLineSeg" /\ call.out # <<>>

\* (E - A) . (B - A): where the perpendicular foot of E lies on the line AB,
\* in units of 1/|AB| along AB from A
Along(E, A, B) ==
    (E[1] - A[1]) * (B[1] - A[1]) + (E[2] - A[2]) * (B[2] - A[2])

\* |AB| squared, and twice the area of the triangle ABE
Norm2(A, B) == (B[1] - A[1]) * (B[1] - A[1]) + (B[2] - A[2]) * (B[2] - A[2])
Cross(E, A, B) ==
    (B[1] - A[1]) * (E[2] - A[2]) - (B[2] - A[2]) * (E[1] - A[1])

FootOutside(E, A, B) ==
    A # B /\ (Along(E, A, B) < 0 \/ Along(E, A, B) > Norm2(A, B))

FootStrictlyInside(E, A, B) ==
    A # B /\ 0 < Along(E, A, B) /\ Along(E, A, B) < Norm2(A, B)

\* the smaller of |AE| squared and |BE| squared
NearerEnd2(E, A, B) ==
    IF Norm2(A, E) < Norm2(B, E) THEN Norm2(A, E) ELSE Norm2(B, E)

\* C18: when the perpendicular foot of E on the line AB lies outside the
\* segment, distancePointToLineSeg(E, A, B) returns min(|AE|, |BE|) (here:
\* its square); for A = (0,0), B = (10,0), E = (15,5) that is sqrt(50).
C18_FootOutside ==
    Returned18
    => /\ FootOutside(call.args[1], call.args[2], call.args[3])
          => call.out[1] = QInt(NearerEnd2(call.args[1], call.args[2],
                                           call.args[3]))
       /\ call.args = <<<<15, 5>>, <<0, 0>>, <<10, 0>>>>
          => call.out[1] = QInt(50)

\* C18: distancePointToLineSeg((15,5), (0,0), (10,0)) has returned sqrt(50)
C18_Witness ==
    /\ Returned18
    /\ call.args = <<<<15, 5>>, <<0, 0>>, <<10, 0>>>>
    /\ FootOutside(call.args[1], call.args[2], call.args[3])
    /\ call.out = <<QInt(50)>>

\* C19: for every segment AB with A # B, in any orientation and endpoint
\* order, and every point E whose perpendicular foot on the line AB lies
\* strictly between A and B, distancePointToLineSeg(E, A, B) returns the
\* perpendicular distance from E to the line AB (here: its square,
\* Cross^2 / |AB|^2).
C19_FootInside ==
    (Returned18 /\ FootStrictlyInside(call.args[1], call.args[2],
                                       call.args[3]))
    => call.out[1] = Q(Cross(call.args[1], call.args[2], call.args[3])
                       * Cross(call.args[1], call.args[2], call.args[3]),
                       Norm2(call.args[2], call.args[3]))

---------------------------------------------------------------------------
(* invert after project *)

\* invert has been applied to a visible projected point
Returned20 == call.fn = "invert" /\ Len(call.out) = 2

OrthographicOnly == projection.mixer.orthographic /\ ~projection.mixer.cylindrical
CylindricalOnly == projection.mixer.cylindrical /\ ~projection.mixer.orthographic

\* C20: for every coordinate c whose projected point is visible,
\* invert(project(c)) is c, to within the one degree that the model
\* resolves, under every preset that is orthographic only and under every
\* preset that is cylindrical only.
C20_RoundTrip ==
    (Returned20 /\ (OrthographicOnly \/ CylindricalOnly))
    => /\ Abs(call.out[2][1] - call.args[1][1]) <= 1
       /\ Abs(call.out[2][2] - call.args[1][2]) <= 1

---------------------------------------------------------------------------
(* The hit test *)

HitTest == kind = "GeoIteratorHitTest"

\* the filter of a query: the geometry is ranked above the query, has no
\* name, or has an interval (a begin) that does not strictly contain the
\* query time
Filtered(geo) ==
    \/ geo.scalerank # NaN /\ geo.scalerank > add.scalerank
    \/ geo.name = ""
    \/ geo.b # NaN /\ ~(geo.b < add.time /\ add.time < geo.e)

\* the pixel of a coordinate
PixelOf(co) == <<project(projection, co)[1], project(projection, co)[2]>>

\* the square of the distance from the pixel E to the segment AB: to the
\* foot of the perpendicular if that lies between the ends, else to the
\* nearer end
SegmentDistance2(E, A, B) ==
    IF FootStrictlyInside(E, A, B)
    THEN Q(Cross(E, A, B) * Cross(E, A, B), Norm2(A, B))
    ELSE QInt(NearerEnd2(E, A, B))

\* the squared distances from the mouse to the segments of the line g
SegmentDistances(g) ==
    {SegmentDistance2(add.mousept,
                      PixelOf(collection.geometries[g].coordinates[k]),
                      PixelOf(collection.geometries[g].coordinates[k + 1])) :
        k \in 1..(Len(collection.geometries[g].coordinates) - 1)}

\* g passes the filter and has a segment closer than 10 pixels to the mouse
Candidate(g) ==
    /\ ~Filtered(collection.geometries[g])
    /\ \E d \in SegmentDistances(g) : QLess(d, QInt(10 * 10))

Candidates == {g \in 1..Len(collection.geometries) : Candidate(g)}

\* no segment of h is nearer to the mouse than the nearest segment of g
NoneNearer(g, h) ==
    \A dh \in SegmentDistances(h) :
       \E dg \in SegmentDistances(g) : ~QLess(dh, dg)

LineCollection ==
    \A g \in 1..Len(collection.geometries) :
       collection.geometries[g].type = "LineString"

\* C14: for a collection of line geometries the hit test returns a
\* geometry that passed the filter and has a segment closer than 10 pixels
\* to the query pixel, and whose nearest segment is at least as near as
\* that of every other such candidate; it returns false exactly when no
\* geometry is a candidate.
C14_NearestCandidate ==
    (Done /\ HitTest /\ LineCollection)
    => IF Candidates = {} THEN ret = "false"
       ELSE \E g \in Candidates :
               /\ ret = GeometryRef(g)
               /\ \A h \in Candidates : NoneNearer(g, h)

\* the hooks of a geometry that come after its geometryStart
InsideGeometry(e) ==
    e.hook \in {"polygonStart", "polygonEnd", "lineStart", "lineEnd",
                "doPoint", "geometryEnd"}

\* C15: the hit test never returns a geometry that fails the filter (its
\* scalerank exceeds the query's, it has no name, or it has a validity
\* interval that does not strictly contain the query time), and such a
\* geometry is never looked into, so that no match found in it can bear
\* on the result: none of its points is visited and it never enters the
\* list of hits.
C15_FilteredNeverHit ==
    HitTest
    => /\ \A g \in 1..Len(collection.geometries) :
             Filtered(collection.geometries[g])
             => /\ ret # GeometryRef(g)
                /\ \A i \in 1..Len(self.hits) : self.hits[i].g # g
       /\ (hooks # <<>> /\ InsideGeometry(LastHook))
             => ~Filtered(collection.geometries[LastHook.g])

---------------------------------------------------------------------------
(* The preset table *)

\* the rows of the table in which the globe turns into the soupcan
BlendRows == {2, 3}

OneFamily(m) == m.orthographic # m.cylindrical
BothFamilies(m) == m.orthographic /\ m.cylindrical

\* C25 as stated: in every entry of the mixer table exactly one of the
\* flags orthographic and cylindrical is true, so that after setMix(mix)
\* exactly one path of project and of invert is active.
C25_ExactlyOneFamily ==
    /\ \A n \in DOMAIN mixer : OneFamily(mixer[n])
    /\ Returned17 => OneFamily(projection.mixer)

\* C25: in every entry of the mixer table at least one of the flags
\* orthographic and cylindrical is true; exactly one is true in the rows 0,
\* 1 and 4 to 8 and both are true in the rows 2 and 3, so that after
\* setMix(mix) with mix in 0..89 exactly one path of project and of invert
\* is active unless floor(mix/10) is 2 or 3, when both are.
C25_OneFamilyOutsideBlend ==
    /\ \A n \in DOMAIN mixer :
          IF n \in BlendRows THEN BothFamilies(mixer[n])
          ELSE OneFamily(mixer[n])
    /\ Returned17
       => IF projection.mix \div 10 \in BlendRows
          THEN BothFamilies(projection.mixer)
          ELSE OneFamily(projection.mixer)

\* C25: setMix(25) has returned true on a Projection whose mix was 0, and
\* the preset now has both flags
C25_Witness ==
    /\ Returned17
    /\ call.args = <<25>> /\ call.out = <<"true">>
    /\ projection0.mix = 0 /\ OneFamily(projection0.mixer)
    /\ projection.mix = 25 /\ BothFamilies(projection.mixer)

---------------------------------------------------------------------------
(* Degenerate segments *)

\* the segment AB of the call has no length or is vertical
Degenerate == call.args[2][1] = call.args[3][1]

---------------------------------------------------------------------------
(* The caches of the scale *)

Resized == call.fn = "resize" /\ projection.pt # <<NaN, NaN>>

\* the shorter dimension of the viewport that the latest translate set
Shorter == Square(2 * projection.pt[1], 2 * projection.pt[2])

RadiusCurrent == projection.k = RadiusPixels(projection.zoom, Shorter)
PerDegreeCurrent ==
    projection.pxlPerDgr = PixelsPerDegree(projection.zoom, Shorter)
UscaleCurrent ==
    projection.uscale = scaler(2 * projection.pt[1], projection.zoom)

\* C26 as the specification words it: after any sequence of scale and
\* translate calls, the radius k, the pixels per degree and the universal
\* scale are those of the latest zoom and the latest viewport size
C26_CachesCurrent ==
    Resized => RadiusCurrent /\ PerDegreeCurrent /\ UscaleCurrent

---------------------------------------------------------------------------
(* A full turn of the globe *)

Rotated == call.fn = "rotate" /\ call.out # <<>>

\* the rotation ro with one more turn t about one axis
Turned(ro, axis, t) == [ro EXCEPT ![axis] = @ + t]

\* is the coordinate as visible after rotate(ro) as the call found it?
SameVisibility(ro) ==
    project(rotate(projection0, ro), call.args[2])[3] = call.out[1][3]

---------------------------------------------------------------------------
(* A child that is declined *)

ChildStarts == {"polygonStart", "lineStart"}

ChildDeclined(i) == hooks[i].hook \in ChildStarts /\ hooks[i].ret = "false"

\* has nothing but polygonStart or lineStart declined so far?
OnlyChildrenDecline ==
    \A i \in DOMAIN hooks :
       hooks[i].hook \in {"collectionStart", "geometryStart", "doPoint"}
       => hooks[i].ret = "true"

\* the children of geometry g, numbered from 0, when it has lines or rings
ChildrenOf(g) ==
    LET geo == collection.geometries[g]
    IN  CASE geo.type \in {"MultiPolygon", "MultiLineString"} ->
                0..(Len(geo.coordinates) - 1)
          [] geo.type \in {"Polygon", "LineString"} -> {0}
          [] OTHER -> {}

ChildStarted(g, part) ==
    \E j \in DOMAIN hooks :
       hooks[j].hook \in ChildStarts /\ hooks[j].g = g /\ hooks[j].part = part

ChildVisited(g, part) ==
    \E j \in DOMAIN hooks :
       hooks[j].hook = "doPoint" /\ hooks[j].g = g /\ hooks[j].part = part

\* C22 as the specification words it: a polygonStart or lineStart that
\* declines skips the coordinates of that one polygon or line, and the
\* other children of the geometry and the later geometries are still
\* visited, for lines as for polygons
C22_DeclineSkipsOneChild ==
    (Done /\ OnlyChildrenDecline)
    => /\ \A i \in DOMAIN hooks :
             ChildDeclined(i) => ~ChildVisited(hooks[i].g, hooks[i].part)
       /\ \A g \in DOMAIN collection.geometries :
             \A part \in ChildrenOf(g) : ChildStarted(g, part)

---------------------------------------------------------------------------
(* A ring that ends out of sight *)

\* has the ring a visible coordinate, and is its last coordinate invisible?
EndsInvisible(ring) ==
    ring # <<>> /\ VisibleIn(ring) # {} /\ ~Visible(ring, Len(ring))

\* what polygonEnd is to do for a ring that ends out of sight
GapAtEndClosed(ring) ==
    /\ self.isGapAtEnd
    /\ IsBridgeTo(Emitted, Pixel(ring, Largest(VisibleIn(ring))),
                  Pixel(ring, Smallest(VisibleIn(ring))))

\* C23 as the specification words it: at the end of a ring that has a
\* visible coordinate and whose last coordinate is invisible, the ring is
\* marked gap-at-end and the closing arc from its last visible point to its
\* first visible point and the line to the first visible point are drawn,
\* whether the first coordinate was visible or not
C23_GapAtEnd ==
    (Clip /\ hooks # <<>> /\ LastHook.hook = "polygonEnd"
          /\ EndsInvisible(RingAt(LastHook)))
    => GapAtEndClosed(RingAt(LastHook))

---------------------------------------------------------------------------
(* Cylindrical presets and the gap *)

CylindricalMode == Clip /\ projection0.mixer.cylindrical

\* has project reported every coordinate handed to doPoint so far visible?
AllReportedVisible ==
    \A i \in DOMAIN hooks :
       hooks[i].hook = "doPoint" => project(projection0, hooks[i].co)[3]

\* has doPoint recorded no gap in the line or ring at hand?
NoGapRecorded ==
    ~self.isGapAtStart /\ self.lastVisiblePointBeforeGap = NoPt

NeverBridged == AllReportedVisible /\ NoGapRecorded /\ ArcTos = {}

\* C24 as the specification words it: whenever the preset has the
\* cylindrical flag, project reports every coordinate visible, and a Clip
\* traversal records no gap and calls no arcTo
C24_CylindricalNeverBridged == CylindricalMode => NeverBridged

\* C24, amended: whenever the preset has the cylindrical flag and not the
\* orthographic flag, project reports every coordinate visible, and a Clip
\* traversal records no gap and calls no arcTo
C24_PureCylindricalNeverBridged ==
    (CylindricalMode /\ ~projection0.mixer.orthographic) => NeverBridged

\* C24: a ring that passes the far side of the globe has been drawn under
\* the soupcan preset of mix 50 without an arcTo
C24_Witness ==
    /\ Clip /\ Done /\ projection0.mix = 50
    /\ collection.geometries =
          <<[type |-> "Polygon", coordinates |-> <<<<Near, Far, North>>>>]>>
    /\ NeverBridged
    /\ Len(sink) = 6

---------------------------------------------------------------------------
(* Malformed geometries *)

Malformed(geo) == ~HasCoordinates(geo) \/ geo.type \notin Types

\* has iterateGeometry taken up a malformed geometry at hooks[i]?
MalformedTakenUp(i) ==
    /\ hooks[i].hook = "geometryStart" /\ hooks[i].ret = "true"
    /\ Malformed(collection.geometries[hooks[i].g])

\* C27 as the specification words it: a geometry with an unrecognized type
\* or without coordinates stops the traversal with a fatal failure: after
\* its geometryStart no hook is called, neither its geometryEnd nor a hook
\* of a later geometry, and the call does not return
C27_MalformedIsFatal ==
    \A i \in DOMAIN hooks :
       MalformedTakenUp(i) => i = Len(hooks) /\ status # "done"

---------------------------------------------------------------------------
(* A palette that is too short *)

ShortPaletteCase == kind = "GeoIteratorScale" /\ ScalePaletteShort(palette)

Visited == \E i \in DOMAIN hooks : hooks[i].hook = "doPoint"

Painted ==
    \E i \in DOMAIN sink :
       sink[i].op \in {"moveTo", "lineTo", "arc", "arcTo", "fill", "stroke"}

\* C28 as the specification words it: a Scale traversal with a palette of
\* fewer than two entries fails at the first geometry: no coordinate is
\* visited, nothing is drawn, no fill and no stroke is called, and the call
\* does not return normally
C28_ShortPaletteIsFatal ==
    (ShortPaletteCase /\ collection.geometries # <<>>)
    => ~Visited /\ ~Painted /\ ~Done

---------------------------------------------------------------------------
(* Termination *)

\* has control left iterateCollection, by a return or by an exception?
Ended == status \in {"done", "threw"}

\* the calls of iterateGeometry for geometry g: each begins with geometryStart
GeometryStarts(g) ==
    Cardinality({i \in DOMAIN hooks :
                    hooks[i].hook = "geometryStart" /\ hooks[i].g = g})

AtMostThreePasses ==
    \A g \in DOMAIN collection.geometries : GeometryStarts(g) <= 3

\* C30: iterateCollection terminates for every collection, preset and
\* combination of hook results, the stitch presets included: iterateGeometry
\* is called at most three times for a geometry, and control leaves the call
C30_Terminates == []AtMostThreePasses /\ <>Ended

\* C30: a traversal under a stitch preset has returned after three calls of
\* iterateGeometry for its first geometry
C30_Witness ==
    /\ Done /\ Stitching
    /\ collection.geometries # <<>>
    /\ GeometryStarts(1) = 3

---------------------------------------------------------------------------
(* A full turn of the cylinder *)

\* is the pixel of the coordinate after rotate(ro) the one the call found?
SamePixel(ro) ==
    project(rotate(projection0, ro), call.args[2]) = call.out[1]

\* C35 as the specification words it: under every preset that has the
\* cylindrical flag, project returns the same pixel for every coordinate
\* after rotate([yaw + 360, pitch]) as after rotate([yaw, pitch])
C35_YawPeriodic ==
    (Rotated /\ projection.mixer.cylindrical)
    => SamePixel(Turned(call.args[1], 1, 360))

---------------------------------------------------------------------------
(* Pixels of the stitched copies *)

InvertedAt == call.fn = "invertAt" /\ call.out # <<>>

\* the longitude of a pixel before the stitch wrap: anywhere in -540..540
UnwrappedLng ==
    RDiv(call.args[1][1] - projection.pt[1], projection.pxlPerDgr)
    + projection.co[1]

\* is lng the longitude in [-180, 180] that is congruent to u modulo 360?
WrapsTo(lng, u) == -180 <= lng /\ lng <= 180 /\ (lng - u) % 360 = 0

\* C34 as the specification words it: in cylindrical mode invert returns,
\* for a pixel of any of the three stitched copies, a longitude in
\* [-180, 180] that is congruent modulo 360 to the unwrapped longitude
C34_StitchedLongitude ==
    InvertedAt => WrapsTo(call.out[1][1], UnwrappedLng)

---------------------------------------------------------------------------
(* The palette index of a qualified geometry *)

\* the Scale coordinator has just let geometry g through, and g has a rank
QualifiedStart ==
    /\ kind = "GeoIteratorScale" /\ hooks # <<>>
    /\ LastHook.hook = "geometryStart" /\ LastHook.ret = "true"
    /\ collection.geometries[LastHook.g].scalerank >= 1
    /\ Len(palette) >= 2

\* C33 as the specification words it: for every geometry that the Scale
\* coordinator qualifies (1 <= geometry scalerank <= zoom scalerank) and
\* every palette of at least two entries, the palette index chosen for it is
\* one of 0..palette.length-1, whatever the zoom scalerank is.
C33_PaletteIndexValid ==
    QualifiedStart => self.paletteNdx \in 0 .. (Len(palette) - 1)

---------------------------------------------------------------------------
(* Paths grouped by scalerank *)

RankOf(g) == collection.geometries[g].scalerank

\* the Scale coordinator has just let a geometry through
ScaleStart ==
    /\ kind = "GeoIteratorScale" /\ hooks # <<>>
    /\ LastHook.hook = "geometryStart" /\ LastHook.ret = "true"

\* the geometries before the one of the last hook that were let through
QualifiedBefore ==
    {g \in 1 .. (LastHook.g - 1) :
        \E j \in DOMAIN hooks : /\ hooks[j].hook = "geometryStart"
                                /\ hooks[j].g = g /\ hooks[j].ret = "true"}

PreviousQualified == CHOOSE g \in QualifiedBefore :
                        \A h \in QualifiedBefore : h <= g

\* the last hook is the first geometryStart of its geometry, and the
\* qualified geometry before it has another scalerank
RankChanged ==
    /\ ScaleStart
    /\ Cardinality(GeometryStartsOf(LastHook.g)) = 1
    /\ QualifiedBefore # {}
    /\ RankOf(PreviousQualified) # RankOf(LastHook.g)

Flushed == \E k \in DOMAIN Emitted : Emitted[k].op = "beginPath"

\* C32 as the specification words it: in a Scale traversal, whenever two
\* consecutive qualified geometries differ in scalerank (a rank of 0 or a
\* missing rank included), geometryStart of the second one flushes the
\* accumulated path and begins a new one before the second geometry emits
\* anything, so that no painted path holds geometries of two scaleranks;
\* and the geometryStart of a stitch re-traversal flushes nothing.
C32_OnePathOneRank ==
    /\ RankChanged => Flushed
    /\ (ScaleStart /\ Cardinality(GeometryStartsOf(LastHook.g)) > 1)
       => Emitted = <<>>

---------------------------------------------------------------------------
(* End hooks paired with start hooks *)

\* the calls of the hook h for the geometry g (0: the collection hooks)
Calls(h, g) == {i \in DOMAIN hooks : hooks[i].hook = h /\ hooks[i].g = g}

\* those of them that returned true
Continued(h, g) == {i \in Calls(h, g) : hooks[i].ret = "true"}

\* as many end hooks as the start hooks call for
Paired ==
    /\ \A g \in DOMAIN collection.geometries :
          /\ Cardinality(Calls("geometryEnd", g))
             = Cardinality(Continued("geometryStart", g))
          /\ Cardinality(Calls("polygonEnd", g))
             = Cardinality(Calls("polygonStart", g))
          /\ Cardinality(Calls("lineEnd", g))
             = Cardinality(Calls("lineStart", g))
    /\ Cardinality(Calls("collectionEnd", 0))
       = Cardinality(Continued("collectionStart", 0))

\* no end hook before its start hook
NeverAhead ==
    /\ \A g \in DOMAIN collection.geometries :
          /\ Cardinality(Calls("geometryEnd", g))
             <= Cardinality(Continued("geometryStart", g))
          /\ Cardinality(Calls("polygonEnd", g))
             <= Cardinality(Calls("polygonStart", g))
          /\ Cardinality(Calls("lineEnd", g))
             <= Cardinality(Calls("lineStart", g))
    /\ Cardinality(Calls("collectionEnd", 0))
       <= Cardinality(Continued("collectionStart", 0))

\* C31 as the specification words it: in any traversal, aborted or not, when
\* the call of iterateCollection has ended geometryEnd has been called once
\* for each geometryStart that returned true and for no other, polygonEnd
\* and lineEnd once for each call of polygonStart and lineStart whatever it
\* returned, and collectionEnd once if collectionStart accepted the
\* collection; and at no time has an end hook been called more often than
\* its start hook calls for.
C31_EndHooksPaired ==
    /\ NeverAhead
    /\ Ended => Paired

====
